---- MODULE Spec2Model ----
(***************************************************************************)
(* Model of the streaming transfer core of webdavProxy                     *)
(* (src/webdav/fileObjectProxy.py): the upload proxy with its worker       *)
(* thread, bounded queue and sharding protocol, and the download proxy     *)
(* with its part switching and Range based seek.                           *)
(*                                                                         *)
(* Bytes are modelled as naturals.  The i-th byte a client writes has the  *)
(* value i, so all bytes of one upload are distinct and any reordering,    *)
(* loss or duplication of bytes is visible.                                *)
(*                                                                         *)
(* The backend is an HTTP server: a PUT takes effect when the request is   *)
(* complete (a chunked body whose terminating chunk never arrives is an    *)
(* incomplete message, RFC 7230 section 3.4), a GET with "Range: bytes=k-" *)
(* answers 206 with the bytes from k, and 416 when k is not smaller than   *)
(* the length of the resource (RFC 7233 section 4.4).                      *)
(***************************************************************************)
EXTENDS Integers, Sequences, FiniteSets, TLC

\* ------------------------------------------------------------------ bounds
\* Most bytes one upload writes.
MaxBytes == 10
\* Largest chunk one write() passes.
MaxChunk == 4
\* Most part PUTs the worker is followed through (it has no bound of its own).
MaxParts == 5

\* ------------------------------------------------------- program constants
\* config.FILE_MAX_SIZE, the size ceiling of one physical part.
FILE_MAX_SIZE == 3
\* queue.Queue(maxsize=5)
QueueMaxSize == 5
STATUS_INIT == 0
STATUS_UPLOADING == 1
STATUS_DONE == 2
STATUS_ERROR == 3

\* backend_url.rsplit('/', 1): the folder and the name of the uploaded file.
file_folder == "http://backend/dav"
file_name == "u"
backend_url == file_folder \o "/" \o file_name

\* Python's None, for the fields that hold None or a string / a number.
None == "None"

\* A queue item or the holdover slot: a chunk of bytes, or Python's None.
NoneItem == [none |-> TRUE, data |-> <<>>]
Chunk(bytes) == [none |-> FALSE, data |-> bytes]

\* The statuses the backend answers a PUT with.
PutStatuses == {201, 500}
\* response.status_code not in (200, 201, 204, 206)
PutAccepted(st) == st \in {200, 201, 204, 206}

VARIABLES
  \* FileObjectUploadProxy
  queue,                \* self._queue
  upload_status,
  total_uploaded_bytes,
  error_message,
  temp_data,            \* the one-slot holdover
  uploaded_bytes,       \* bytes yielded into the current part
  file_split_info,
  closed,
  \* _upload_worker's locals and position
  file_split_index,
  wpc,                  \* "put", "resp", "after_loop", "manifest", "done"
  body,                 \* the bytes the generator yielded into the PUT in flight
  \* the writing thread (the framework): its position in write() / close()
  wr,                   \* "idle", "write_put", "close_put", "close_join", "closed"
  wdata,                \* the data of the write() in progress
  \* the backend
  store,                \* file name -> content, of the completed PUTs
  puts,                 \* the PUT requests answered so far, in order
  \* history
  input,                \* the bytes of the write() calls that returned
  chunks,               \* the same, chunk by chunk
  lastWrite,            \* how the last write() ended: "none", "ok", "IOError"
  wAfterReject,         \* whether the write() in progress began after a rejected PUT
  rt,                   \* the result of reading the uploaded path back, or NotRead
  ew                    \* how end_write() of the file's handle ended, or NotEnded

VARIABLES
  \* FileObjectDownloadProxy and its caller
  dl,                   \* the proxy's fields
  dlChunk,              \* the size of the blocks iter_content yields
  content,              \* the full logical content of the file read
  dlOut,                \* the bytes returned so far, while no seek() was called
  dlSeeked,             \* whether seek() was called
  lastSeek,             \* the position the last call, a seek(), returned; -1 otherwise
  lastRead,             \* the last call, a read(): position before, size, result
  cut                   \* url -> the number of bytes of the resource that arrive
                        \* before the connection of a GET for it breaks

VARIABLES
  \* WebDAVProxy (the provider), its backend and the handle of a request
  be,                   \* the backend's resources: id -> [coll, len, etag, body]
  style,                \* how the backend writes the hrefs of a listing, and in which order
  cache,                \* self.resource_meta_cache: path -> [value, expires, ord]
  now,                  \* the cache's timer
  h,                    \* the resource handle of the request in progress
  lastOp,               \* the last provider / handle call and what it did
  chain,                \* the PROPFIND the last get_resource_meta calls go back to
  served                \* the number of requests resolved so far

VARIABLES
  \* the worker threads of the server, which share the provider and its cache
  threads               \* thread -> the provider call it is in and where

upVars == <<queue, upload_status, total_uploaded_bytes, error_message, temp_data,
            uploaded_bytes, file_split_info, closed, file_split_index, wpc, body,
            wr, wdata, store, puts, input, chunks, lastWrite, wAfterReject, rt,
            ew>>

dlVars == <<dl, dlChunk, content, dlOut, dlSeeked, lastSeek, lastRead, cut>>

pvVars == <<be, style, cache, now, h, lastOp, chain, served>>

thVars == <<threads>>

vars == <<upVars, dlVars, pvVars, thVars>>

\* ----------------------------------------------------------------- helpers
RECURSIVE Flatten(_)
Flatten(ss) == IF ss = <<>> THEN <<>> ELSE Head(ss) \o Flatten(Tail(ss))

RECURSIVE SumSeq(_)
SumSeq(ns) == IF ns = <<>> THEN 0 ELSE Head(ns) + SumSeq(Tail(ns))

\* str(n).zfill(3)
Zfill3(n) ==
  IF n < 10 THEN "00" \o ToString(n)
  ELSE IF n < 100 THEN "0" \o ToString(n)
  ELSE ToString(n)

\* file_last: '' for the head, '.part' + str(file_split_index).zfill(3) after it
file_last(idx) == IF idx = 0 THEN "" ELSE ".part" \o Zfill3(idx)

\* The bytes Len(input)+1 .. Len(input)+n: the next n bytes the client writes.
NextBytes(n) == [i \in 1..n |-> Len(input) + i]

\* json.dumps / json.loads of the manifest: a dict of str keys and ints.
JsonDumps(obj) == [json |-> obj]
JsonLoads(doc) == doc.json

\* --------------------------------------------------- FileObjectUploadProxy
\* __init__ followed by _start_upload
UploadProxyInit ==
  /\ queue = <<>>
  /\ upload_status = STATUS_UPLOADING
  /\ total_uploaded_bytes = 0
  /\ error_message = None
  /\ temp_data = NoneItem
  /\ uploaded_bytes = 0
  /\ file_split_info = [splitFileList |-> <<>>, meta |-> [content_length |-> 0]]
  /\ closed = FALSE
  /\ file_split_index = 0
  /\ wpc = "put"
  /\ body = <<>>
  /\ wr = "idle"
  /\ wdata = <<>>
  /\ puts = <<>>
  /\ input = <<>>
  /\ chunks = <<>>
  /\ lastWrite = "none"
  /\ wAfterReject = FALSE

\* Some PUT of this upload was rejected by the backend.
Rejected == \E i \in 1..Len(puts) : ~PutAccepted(puts[i].status)

\* write(): the closed test and the status test, up to the blocking put
WriteCheck(n) ==
  /\ wr = "idle"
  /\ ~closed
  /\ Len(input) + n <= MaxBytes
  /\ wAfterReject' = Rejected
  /\ IF upload_status = STATUS_ERROR
       THEN /\ lastWrite' = "IOError"
            /\ UNCHANGED <<wr, wdata>>
       ELSE /\ wr' = "write_put"
            /\ wdata' = NextBytes(n)
            /\ UNCHANGED lastWrite
  /\ UNCHANGED <<queue, upload_status, total_uploaded_bytes, error_message,
                 temp_data, uploaded_bytes, file_split_info, closed,
                 file_split_index, wpc, body, store, puts, input, chunks>>
  /\ UNCHANGED <<rt, ew, dlVars, pvVars, thVars>>

\* write(): self._queue.put(data, block=True), which waits while the queue is full
WritePut ==
  /\ wr = "write_put"
  /\ Len(queue) < QueueMaxSize
  /\ queue' = Append(queue, Chunk(wdata))
  /\ input' = input \o wdata
  /\ chunks' = Append(chunks, wdata)
  /\ lastWrite' = "ok"
  /\ wr' = "idle"
  /\ wdata' = <<>>
  /\ UNCHANGED <<upload_status, total_uploaded_bytes, error_message, temp_data,
                 uploaded_bytes, file_split_info, closed, file_split_index, wpc,
                 body, store, puts, wAfterReject>>
  /\ UNCHANGED <<rt, ew, dlVars, pvVars, thVars>>

\* close(): if self._queue.qsize() > 0 and self.upload_status != STATUS_ERROR
CloseNeedsDrain == Len(queue) > 0 /\ upload_status # STATUS_ERROR

\* close(): the test; without queued data the proxy is closed at once
CloseCheck ==
  /\ wr = "idle"
  /\ ~closed
  /\ IF CloseNeedsDrain
       THEN /\ wr' = "close_put"
            /\ UNCHANGED closed
       ELSE /\ wr' = "closed"
            /\ closed' = TRUE
  /\ UNCHANGED <<queue, upload_status, total_uploaded_bytes, error_message,
                 temp_data, uploaded_bytes, file_split_info, file_split_index,
                 wpc, body, wdata, store, puts, input, chunks, lastWrite,
                 wAfterReject>>
  /\ UNCHANGED <<rt, ew, dlVars, pvVars, thVars>>

\* close(): self._queue.put(None), which waits while the queue is full
ClosePut ==
  /\ wr = "close_put"
  /\ Len(queue) < QueueMaxSize
  /\ queue' = Append(queue, NoneItem)
  /\ wr' = "close_join"
  /\ UNCHANGED <<upload_status, total_uploaded_bytes, error_message, temp_data,
                 uploaded_bytes, file_split_info, closed, file_split_index, wpc,
                 body, wdata, store, puts, input, chunks, lastWrite, wAfterReject>>
  /\ UNCHANGED <<rt, ew, dlVars, pvVars, thVars>>

\* close(): self._upload_thread.join(), then super().close()
CloseJoin ==
  /\ wr = "close_join"
  /\ wpc = "done"
  /\ closed' = TRUE
  /\ wr' = "closed"
  /\ UNCHANGED <<queue, upload_status, total_uploaded_bytes, error_message,
                 temp_data, uploaded_bytes, file_split_info, file_split_index,
                 wpc, body, wdata, store, puts, input, chunks, lastWrite,
                 wAfterReject>>
  /\ UNCHANGED <<rt, ew, dlVars, pvVars, thVars>>

\* _data_generator: if self.uploaded_bytes + chunk_size > FILE_MAX_SIZE
Overflows_ge(uploaded, chunk_size) == uploaded + chunk_size >= FILE_MAX_SIZE
Overflows(uploaded, chunk_size) == uploaded + chunk_size > FILE_MAX_SIZE

\* _data_generator: one turn of its loop, run by requests.put as it sends the
\* body.  The chunk is the holdover if there is one, else the next queue item
\* (queue.get() waits while the queue is empty).
GenStep ==
  /\ wpc = "put"
  /\ temp_data.none => queue # <<>>
  /\ LET fromQueue == temp_data.none
         chunk == IF fromQueue THEN Head(queue) ELSE temp_data
     IN /\ queue' = IF fromQueue THEN Tail(queue) ELSE queue
        /\ IF chunk.none
             THEN \* the end-of-stream sentinel: the body ends
                  /\ wpc' = "resp"
                  /\ UNCHANGED <<temp_data, uploaded_bytes, body>>
             ELSE IF Overflows(uploaded_bytes, Len(chunk.data))
             THEN \* the chunk is held over and the body ends
                  /\ temp_data' = chunk
                  /\ wpc' = "resp"
                  /\ UNCHANGED <<uploaded_bytes, body>>
             ELSE \* the chunk is yielded; a holdover is cleared
                  /\ uploaded_bytes' = uploaded_bytes + Len(chunk.data)
                  /\ body' = body \o chunk.data
                  /\ temp_data' = NoneItem
                  /\ UNCHANGED wpc
  /\ UNCHANGED <<upload_status, total_uploaded_bytes, error_message,
                 file_split_info, closed, file_split_index, wr, wdata, store,
                 puts, input, chunks, lastWrite, wAfterReject>>
  /\ UNCHANGED <<rt, ew, dlVars, pvVars, thVars>>

\* The PUT request of a part, as the backend saw it.
PartPut(st) ==
  [url |-> file_folder \o "/" \o file_name \o file_last(file_split_index),
   name |-> file_name \o file_last(file_split_index),
   body |-> body, manifest |-> FALSE, status |-> st]

\* The entry _upload_worker appends to splitFileList
SplitEntry(name, size) == [fileName |-> name, filesize |-> size]

\* _upload_worker: requests.put returns for a part; the loop body after it
PutResponse ==
  /\ wpc = "resp"
  /\ file_split_index < MaxParts
  /\ \E st \in PutStatuses :
       /\ puts' = Append(puts, PartPut(st))
       /\ IF ~PutAccepted(st)
            THEN /\ error_message' = "upload failed"
                 /\ upload_status' = STATUS_ERROR
                 /\ wpc' = "after_loop"
                 /\ UNCHANGED <<total_uploaded_bytes, file_split_info,
                                uploaded_bytes, file_split_index, store, body>>
            ELSE /\ store' = (PartPut(st).url :> body) @@ store
                 /\ total_uploaded_bytes' = total_uploaded_bytes + uploaded_bytes
                 /\ file_split_info' =
                      [file_split_info EXCEPT !.splitFileList =
                         Append(@, SplitEntry(PartPut(st).name, uploaded_bytes))]
                 /\ uploaded_bytes' = 0
                 /\ file_split_index' = file_split_index + 1
                 /\ body' = <<>>
                 /\ wpc' = IF temp_data.none THEN "after_loop" ELSE "put"
                 /\ UNCHANGED <<error_message, upload_status>>
  /\ UNCHANGED <<queue, temp_data, closed, wr, wdata, input, chunks, lastWrite,
                 wAfterReject>>
  /\ UNCHANGED <<rt, ew, dlVars, pvVars, thVars>>

\* _upload_worker: if file_split_index > 1
NeedSplitInfo_ge(idx) == idx >= 1
NeedSplitInfo(idx) == idx > 1

\* The manifest with its total, as _upload_worker serialises it
Manifest ==
  [file_split_info EXCEPT !.meta.content_length = total_uploaded_bytes]

\* _upload_worker after the loop: the manifest PUT is sent if the file was split;
\* otherwise the worker ends with self.upload_status = STATUS_DONE
AfterLoop ==
  /\ wpc = "after_loop"
  /\ IF NeedSplitInfo(file_split_index)
       THEN /\ file_split_info' = Manifest
            /\ wpc' = "manifest"
            /\ UNCHANGED upload_status
       ELSE /\ upload_status' = STATUS_DONE
            /\ wpc' = "done"
            /\ UNCHANGED file_split_info
  /\ UNCHANGED <<queue, total_uploaded_bytes, error_message, temp_data,
                 uploaded_bytes, closed, file_split_index, body, wr, wdata,
                 store, puts, input, chunks, lastWrite, wAfterReject>>
  /\ UNCHANGED <<rt, ew, dlVars, pvVars, thVars>>

\* The manifest PUT, as the backend saw it.
ManifestPut(st) ==
  [url |-> file_folder \o "/" \o file_name \o ".splitinfo",
   name |-> file_name \o ".splitinfo",
   body |-> JsonDumps(file_split_info), manifest |-> TRUE, status |-> st]

\* _upload_worker: the manifest PUT returns; then self.upload_status = STATUS_DONE
ManifestResponse ==
  /\ wpc = "manifest"
  /\ \E st \in PutStatuses :
       /\ puts' = Append(puts, ManifestPut(st))
       /\ IF ~PutAccepted(st)
            THEN /\ error_message' = "upload of split info failed"
                 /\ UNCHANGED store
            ELSE /\ store' = (ManifestPut(st).url :> ManifestPut(st).body) @@ store
                 /\ UNCHANGED error_message
  /\ upload_status' = STATUS_DONE
  /\ wpc' = "done"
  /\ UNCHANGED <<queue, total_uploaded_bytes, temp_data, uploaded_bytes,
                 file_split_info, closed, file_split_index, body, wr, wdata,
                 input, chunks, lastWrite, wAfterReject>>
  /\ UNCHANGED <<rt, ew, dlVars, pvVars, thVars>>

\* get_status()
get_status ==
  [uploaded_bytes |-> total_uploaded_bytes, status |-> upload_status,
   closed |-> closed, error |-> error_message]


\* ------------------------------------------------------------ the backend
Min(a, b) == IF a < b THEN a ELSE b
Max(a, b) == IF a > b THEN a ELSE b

\* The number of bytes of the resource at url that reach the proxy: all of
\* them, unless the connection breaks before.
Arriving(st, url) ==
  IF url \in DOMAIN cut THEN Min(cut[url], Len(st[url])) ELSE Len(st[url])

\* requests.get(url, headers, stream=True) on the backend `st`: "Range:
\* bytes=start-" is sent when start > 0.  The status line and the headers
\* arrive; body is what arrives of the content, and cut tells that the
\* connection breaks after it.
HttpGet(st, url, start) ==
  IF url \notin DOMAIN st THEN [status |-> 404, body |-> <<>>, cut |-> FALSE]
  ELSE IF start > 0
    THEN IF start >= Len(st[url])
           THEN [status |-> 416, body |-> <<>>, cut |-> FALSE]
           ELSE [status |-> 206,
                 body |-> SubSeq(st[url], start + 1, Arriving(st, url)),
                 cut |-> url \in DOMAIN cut]
    ELSE [status |-> 200, body |-> SubSeq(st[url], 1, Arriving(st, url)),
          cut |-> url \in DOMAIN cut]

\* status_code not in (200, 206)
GetAccepted(status) == status \in {200, 206}

\* Utils.propfind with its split-file pass and get_split_info, for one file of
\* the listing: the physical length, and the manifest merged in when the
\* listing holds <name>.splitinfo beside the head.  A path that is not in the
\* listing has no meta (get_resource_meta returns None: the empty dict here,
\* which the proxy treats alike).
ResolvedMeta(st, url) ==
  IF url \notin DOMAIN st THEN <<>>
  ELSE IF (url \o ".splitinfo") \in DOMAIN st
    THEN LET split_info == JsonLoads(st[url \o ".splitinfo"])
         IN [content_length |-> split_info.meta.content_length,
             split_info |-> split_info]
    ELSE [content_length |-> Len(st[url])]

\* ------------------------------------------------- FileObjectDownloadProxy
\* A stream that is None, and the iterator response.iter_content returns for
\* the response r: the bytes still to come, whether the connection breaks after
\* them, and whether the iterator has raised (a generator that raised is
\* finished: every later next() raises StopIteration).
NoStream == [open |-> FALSE, rest |-> <<>>, cut |-> FALSE, raised |-> FALSE]
Stream(r) == [open |-> TRUE, rest |-> r.body, cut |-> r.cut, raised |-> FALSE]

\* next(stream) raises the transport's error: nothing is left of what arrived
\* and the connection broke.
Breaks(s) == s.rest = <<>> /\ s.cut /\ ~s.raised
Broken(s) == [s EXCEPT !.raised = TRUE]

\* int(part.get('fileSize', 0))
PartSize(part) == IF "fileSize" \in DOMAIN part THEN part.fileSize ELSE 0

\* _get_part_url
_get_part_url(filename) == file_folder \o "/" \o filename

\* __init__: the part table of a split file, with each part's start and end
RECURSIVE BuildParts(_, _)
BuildParts(split_list, current_start) ==
  IF split_list = <<>> THEN <<>>
  ELSE LET part == Head(split_list)
           part_size == PartSize(part)
       IN <<[url |-> _get_part_url(part.fileName), size |-> part_size,
             start |-> current_start, end |-> current_start + part_size]>>
          \o BuildParts(Tail(split_list), current_start + part_size)

\* __init__
DownloadProxyInit(meta) ==
  LET is_split == "split_info" \in DOMAIN meta
  IN [position |-> 0,
      content_length |-> IF "content_length" \in DOMAIN meta
                           THEN meta.content_length ELSE 0,
      split |-> is_split,
      parts |-> IF is_split THEN BuildParts(meta.split_info.splitFileList, 0)
                ELSE <<>>,
      buffer |-> <<>>,
      stream |-> NoStream,
      response |-> FALSE,
      cpi |-> -1,                \* _current_part_index
      cps |-> NoStream,          \* _current_part_stream
      cpr |-> FALSE,             \* _current_part_response is not None
      cpp |-> 0,                 \* _current_part_position
      refused |-> FALSE]         \* (history) a GET of the call in progress was
                                 \* answered with a status that is not accepted

\* _locate_current_part: the first part whose [start, end) holds the position
LocateIndex(p) ==
  LET hits == {i \in 1..Len(p.parts) :
                 p.parts[i].start <= p.position /\ p.position < p.parts[i].end}
  IN IF hits = {} THEN 0 ELSE CHOOSE i \in hits : \A j \in hits : i <= j

\* _locate_current_part
_locate_current_part(p) ==
  IF p.position >= p.content_length
    THEN [p EXCEPT !.cpi = Len(p.parts) - 1,
                   !.cpp = p.parts[Len(p.parts)].size]
  ELSE IF LocateIndex(p) > 0
    THEN [p EXCEPT !.cpi = LocateIndex(p) - 1,
                   !.cpp = p.position - p.parts[LocateIndex(p)].start]
  ELSE [p EXCEPT !.cpi = 0, !.cpp = 0]

\* _open_current_part: [p, err], err when IOError is raised
_open_current_part(st, p) ==
  IF p.cpi < 0 \/ p.cpi >= Len(p.parts) THEN [p |-> p, err |-> FALSE]
  ELSE LET r == HttpGet(st, p.parts[p.cpi + 1].url, p.cpp)
       IN IF ~GetAccepted(r.status)
            THEN [p |-> [p EXCEPT !.cpr = TRUE, !.refused = TRUE], err |-> TRUE]
            ELSE [p |-> [p EXCEPT !.cpr = TRUE, !.cps = Stream(r)],
                  err |-> FALSE]

\* _switch_to_next_part: whether there is a further part
HasNextPart_skip(p) == p.cpi >= 0 /\ p.cpi < Len(p.parts) - 2
HasNextPart(p) == p.cpi >= 0 /\ p.cpi < Len(p.parts) - 1

\* _switch_to_next_part, when there is a further part: [p, err]
_switch_to_next_part(st, p) ==
  _open_current_part(st, [p EXCEPT !.cpi = @ + 1, !.cpp = 0])

\* _ensure_stream: [p, err]
_ensure_stream(st, p) ==
  IF p.split
    THEN IF p.cpi < 0 \/ ~p.cps.open
           THEN _open_current_part(st, _locate_current_part(p))
           ELSE [p |-> p, err |-> FALSE]
    ELSE IF ~p.stream.open
           THEN LET r == HttpGet(st, backend_url, p.position)
                IN IF ~GetAccepted(r.status)
                     THEN [p |-> [p EXCEPT !.response = TRUE, !.refused = TRUE],
                           err |-> TRUE]
                     ELSE [p |-> [p EXCEPT !.response = TRUE,
                                           !.stream = Stream(r)],
                           err |-> FALSE]
           ELSE [p |-> p, err |-> FALSE]

\* next(stream) for a stream that is not exhausted: the block it yields
NextBlock(cs, s) == SubSeq(s.rest, 1, Min(cs, Len(s.rest)))
\* the stream after that block
AfterBlock(cs, s) == [s EXCEPT !.rest = SubSeq(@, Min(cs, Len(@)) + 1, Len(@))]

\* read() of a split file: the while loop.  remaining < 0 stands for float('inf').
RECURSIVE SplitReadLoop(_, _, _, _, _)
SplitReadLoop(st, cs, p, data, remaining) ==
  IF remaining = 0 THEN [p |-> p, data |-> data, err |-> FALSE]
  ELSE
    LET \* the buffer is drained first
        take == IF remaining < 0 THEN Len(p.buffer)
                ELSE Min(remaining, Len(p.buffer))
        p1 == [p EXCEPT !.buffer = SubSeq(@, take + 1, Len(@)),
                        !.position = @ + take]
        data1 == data \o SubSeq(p.buffer, 1, take)
        rem1 == IF remaining < 0 THEN remaining ELSE remaining - take
    IN IF rem1 = 0 THEN [p |-> p1, data |-> data1, err |-> FALSE]
       ELSE IF ~p1.cps.open THEN [p |-> p1, data |-> data1, err |-> FALSE]
       ELSE IF Breaks(p1.cps)
         THEN \* only StopIteration is caught: the transport's error propagates
              [p |-> [p1 EXCEPT !.cps = Broken(@)], data |-> <<>>, err |-> TRUE]
       ELSE IF p1.cps.rest = <<>>
         THEN \* StopIteration: the part is exhausted
              IF ~HasNextPart(p1) THEN [p |-> p1, data |-> data1, err |-> FALSE]
              ELSE LET sw == _switch_to_next_part(st, p1)
                   IN IF sw.err THEN [p |-> sw.p, data |-> <<>>, err |-> TRUE]
                      ELSE SplitReadLoop(st, cs, sw.p, data1, rem1)
         ELSE
           LET chunk == NextBlock(cs, p1.cps)
               p2 == [p1 EXCEPT !.cps = AfterBlock(cs, p1.cps)]
           IN IF rem1 >= 0 /\ Len(chunk) > rem1
                THEN [p |-> [p2 EXCEPT !.buffer = SubSeq(chunk, rem1 + 1, Len(chunk)),
                                       !.position = @ + rem1],
                      data |-> data1 \o SubSeq(chunk, 1, rem1), err |-> FALSE]
                ELSE SplitReadLoop(st, cs,
                       [p2 EXCEPT !.position = @ + Len(chunk)],
                       data1 \o chunk,
                       IF rem1 < 0 THEN rem1 ELSE rem1 - Len(chunk))

\* read() of a single file with a size: the while loop; [p, data, rem, exc],
\* exc when next(self.stream) raised something other than StopIteration
RECURSIVE PlainReadLoop(_, _, _, _)
PlainReadLoop(cs, p, data, bytes_remaining) ==
  IF bytes_remaining > 0 /\ Breaks(p.stream)
    THEN [p |-> [p EXCEPT !.stream = Broken(@)], data |-> data,
          rem |-> bytes_remaining, exc |-> TRUE]
  ELSE IF bytes_remaining <= 0 \/ p.stream.rest = <<>>
    THEN [p |-> p, data |-> data, rem |-> bytes_remaining, exc |-> FALSE]
  ELSE
    LET chunk == NextBlock(cs, p.stream)
        p1 == [p EXCEPT !.stream = AfterBlock(cs, p.stream)]
    IN IF Len(chunk) <= bytes_remaining
         THEN PlainReadLoop(cs, p1, data \o chunk, bytes_remaining - Len(chunk))
         ELSE [p |-> [p1 EXCEPT !.buffer =
                        SubSeq(chunk, bytes_remaining + 1, Len(chunk))],
               data |-> data \o SubSeq(chunk, 1, bytes_remaining),
               rem |-> 0, exc |-> FALSE]

\* read(size) on the backend `st` with blocks of `cs` bytes: [p, data, err]
read(st, cs, p, size) ==
  IF p.split
    THEN IF size = 0 THEN [p |-> p, data |-> <<>>, err |-> FALSE]
         ELSE LET e == _ensure_stream(st, p)
              IN IF e.err THEN [p |-> e.p, data |-> <<>>, err |-> TRUE]
                 ELSE SplitReadLoop(st, cs, e.p, <<>>,
                                    IF size > 0 THEN size ELSE -1)
    ELSE LET e == _ensure_stream(st, p)
         IN IF e.err THEN [p |-> e.p, data |-> <<>>, err |-> TRUE]
            ELSE IF size = -1
              THEN \* b''.join(self.stream)
                   IF e.p.stream.cut /\ ~e.p.stream.raised
                     THEN \* except Exception: return b''
                          [p |-> [e.p EXCEPT !.stream.rest = <<>>,
                                             !.stream.raised = TRUE],
                           data |-> <<>>, err |-> FALSE]
                     ELSE [p |-> [e.p EXCEPT !.stream.rest = <<>>,
                                        !.position = @ + Len(e.p.stream.rest)],
                           data |-> e.p.stream.rest, err |-> FALSE]
              ELSE LET r == PlainReadLoop(cs, e.p, <<>>, size)
                   IN IF r.exc
                        THEN \* except Exception: return b''
                             [p |-> r.p, data |-> <<>>, err |-> FALSE]
                        ELSE [p |-> [r.p EXCEPT !.position = @ + (size - r.rem)],
                              data |-> r.data, err |-> FALSE]

\* seek(offset, whence): the proxy after it; the call returns its position
seek(p, offset, whence) ==
  LET target == CASE whence = "SEEK_SET" -> offset
                  [] whence = "SEEK_CUR" -> p.position + offset
                  [] whence = "SEEK_END" -> p.content_length + offset
      new_position == Max(0, Min(target, p.content_length))
  IN IF new_position = p.position THEN p
     ELSE IF p.split
       THEN [p EXCEPT !.buffer = <<>>, !.position = new_position,
                      !.cps = IF p.cpr THEN NoStream ELSE @,
                      !.cpr = FALSE, !.cpi = -1]
       ELSE [p EXCEPT !.buffer = <<>>, !.position = new_position,
                      !.stream = NoStream, !.response = FALSE]

\* ------------------------------------------------------------ bounds (download)
\* Most parts of a split file that is read, and most bytes of one part.
MaxDlParts == 3
MaxPartSize == 2
\* Most bytes of a single (unsplit) file that is read.
MaxFileLen == 3
\* Largest size passed to read(), and largest block iter_content yields.
MaxRead == 2
MaxIterChunk == 2

\* The name of the k-th physical part: the head for k = 0.
PartName(k) == file_name \o file_last(k)
PartUrl(k) == file_folder \o "/" \o PartName(k)

\* C[k : k+n] of Python, with n < 0 for "to the end"
Slice(C, k, n) ==
  SubSeq(C, k + 1, IF n < 0 THEN Len(C) ELSE Min(k + n, Len(C)))

\* ======================================================= WebDAVProxy (provider)
\* A path or a URL is a sequence of tokens: "/" , a name, an extension with its
\* dot (".part001"), or the origin of the backend ("http://h").  The string
\* operations of the code work on the tokens as they do on the characters.

\* config.METADATA_CACHE_TTL, in ticks of the cache's timer.
METADATA_CACHE_TTL == 2
\* config.METADATA_CACHE_SIZE, the maxsize of the TTLCache, in entries.
METADATA_CACHE_SIZE == 9

\* ------------------------------------------------------ bounds (provider)
\* The timer of the cache is followed up to this time.
MaxTime == 2
\* Most requests that the provider resolves in one run.
MaxRequests == 2
\* The worker threads, and the provider calls each of them makes.
MaxThreads == 2
MaxCalls == 2

\* str.startswith / str.endswith
StartsWith(s, prefix) == Len(prefix) <= Len(s) /\ SubSeq(s, 1, Len(prefix)) = prefix
EndsWith(s, suffix) ==
  Len(suffix) <= Len(s) /\ SubSeq(s, Len(s) - Len(suffix) + 1, Len(s)) = suffix

\* s[n:]
DropFirst(s, n) == SubSeq(s, n + 1, Len(s))

\* str.rstrip('/'), str.lstrip('/') and str.strip('/')
RECURSIVE RStrip(_)
RStrip(s) ==
  IF s # <<>> /\ s[Len(s)] = "/" THEN RStrip(SubSeq(s, 1, Len(s) - 1)) ELSE s
RECURSIVE LStrip(_)
LStrip(s) == IF s # <<>> /\ Head(s) = "/" THEN LStrip(Tail(s)) ELSE s
Strip(s) == RStrip(LStrip(s))

\* The index of the last "/" of s, 0 when it has none.
LastSlash(s) ==
  LET is == {i \in 1..Len(s) : s[i] = "/"}
  IN IF is = {} THEN 0 ELSE CHOOSE i \in is : \A j \in is : j <= i

\* os.path.dirname, os.path.basename and str.rsplit('/', 1)[0]
Dirname(s) ==
  LET head == SubSeq(s, 1, LastSlash(s))
  IN IF RStrip(head) = <<>> THEN head ELSE RStrip(head)
Basename(s) == DropFirst(s, LastSlash(s))
RSplitHead(s) == IF LastSlash(s) = 0 THEN s ELSE SubSeq(s, 1, LastSlash(s) - 1)

\* The tokens that begin with a dot, and those whose text after the dot begins
\* with "part" (".partial" is an ordinary extension that does).
DotTokens == {".part001", ".part002", ".splitinfo", ".partial", ".txt"}
PartTokens == {".part001", ".part002", ".partial"}

\* key.split('.')[-1].startswith('part'): the text after the last dot of the key
LastDot(s) ==
  LET is == {i \in 1..Len(s) : s[i] \in DotTokens}
  IN IF is = {} THEN 0 ELSE CHOOSE i \in is : \A j \in is : j <= i
LastExtensionIsPart(key) == LastDot(key) > 0 /\ key[LastDot(key)] \in PartTokens

\* urllib.parse.quote / unquote of a URL path: the one name of the model that
\* holds a character to escape is "f x".
Quote(s) == [i \in DOMAIN s |-> IF s[i] = "f x" THEN "f%20x" ELSE s[i]]
Unquote(s) == [i \in DOMAIN s |-> IF s[i] = "f%20x" THEN "f x" ELSE s[i]]

\* config.BACKEND_URL after rstrip("/"), and urlparse(self.backend_url).path
BACKEND_URL == <<"http://h", "/", "d">>
backend_path == Tail(BACKEND_URL)

\* _get_backend_url
_get_backend_url(path) == BACKEND_URL \o <<"/">> \o Strip(path)

\* ------------------------------------------------------ the WebDAV backend
\* A resource is known by its path below the backend URL, without a trailing
\* slash: <<>> is the collection at the backend URL itself.
Root == <<>>
DirA == <<"/", "a">>
DirB == <<"/", "b">>
FileF == DirA \o <<"/", "f x">>
HeadU == DirA \o <<"/", "u">>
FileG == DirA \o <<"/", "g">>

\* The resource a request URL names (the backend unescapes the URL).
UrlToId(url) == RStrip(DropFirst(Unquote(url), Len(BACKEND_URL)))

\* The resources below a collection, and the members of a Depth: 1 listing.
Below(st, id) == {o \in DOMAIN st : StartsWith(o, id \o <<"/">>)}
Children(st, id) ==
  {o \in Below(st, id) : \A i \in (Len(id) + 2)..Len(o) : o[i] # "/"}

\* The href of a resource in a multistatus body: with or without the origin,
\* a collection with or without the trailing slash (RFC 4918 section 8.3 says
\* SHOULD), percent-encoded.
Href(st, sty, id) ==
  Quote((IF sty.abs THEN BACKEND_URL ELSE backend_path) \o id
        \o (IF st[id].coll /\ sty.slash THEN <<"/">> ELSE <<>>))

\* The manifest the upload proxy leaves beside a head with further parts.
ManifestOf(name, sizes) ==
  [meta |-> [content_length |-> SumSeq(sizes)],
   splitFileList |->
     [i \in 1..Len(sizes) |->
        SplitEntry(IF i = 1 THEN <<name>>
                   ELSE <<name, ".part00" \o ToString(i - 1)>>, sizes[i])]]

Collection(etag) == [coll |-> TRUE, len |-> 0, etag |-> etag, body |-> <<>>]
File(len, etag) == [coll |-> FALSE, len |-> len, etag |-> etag, body |-> <<>>]
ManifestFile(etag, manifest) ==
  [coll |-> FALSE, len |-> 9, etag |-> etag, body |-> <<JsonDumps(manifest)>>]

\* The backend tree at the start: /a/ with a regular file, a split file of
\* two parts and a file /a/g, and a collection /b/; a copy or a move can
\* overwrite the last two.
InitTree ==
  (Root :> Collection(0)) @@ (DirA :> Collection(1)) @@ (FileF :> File(2, 2))
  @@ (HeadU :> File(3, 3))
  @@ ((HeadU \o <<".part001">>) :> File(1, 4))
  @@ ((HeadU \o <<".splitinfo">>) :> ManifestFile(6, ManifestOf("u", <<3, 1>>)))
  @@ (FileG :> File(4, 7)) @@ (DirB :> Collection(8))

\* A resource for which the backend's listing carries no resourcetype
\* property, and a manifest whose text is not JSON.
Untyped(len, etag) ==
  [coll |-> FALSE, len |-> len, etag |-> etag, body |-> <<>>, typed |-> FALSE]
NotJson == [text |-> "{"]
BrokenManifestFile(etag) ==
  [coll |-> FALSE, len |-> 1, etag |-> etag, body |-> <<NotJson>>]

\* A collection /a/ with as many files as the cache has room for entries, so
\* that its listing, which begins with /a/ itself, has one entry more.
WideNames == {"m" \o ToString(i) : i \in 1..METADATA_CACHE_SIZE}
WideFiles == {DirA \o <<"/", name>> : name \in WideNames}
WideTree ==
  [id \in {Root, DirA} \cup WideFiles |->
     IF id = Root THEN Collection(0)
     ELSE IF id = DirA THEN Collection(1) ELSE File(1, 2)]

\* A collection /a/ with two split files: the manifest of u is intact, that
\* of v is not JSON.
HeadV == DirA \o <<"/", "v">>
SplitTree ==
  (Root :> Collection(0)) @@ (DirA :> Collection(1))
  @@ (HeadU :> File(3, 3))
  @@ ((HeadU \o <<".part001">>) :> File(1, 4))
  @@ ((HeadU \o <<".splitinfo">>) :> ManifestFile(6, ManifestOf("u", <<3, 1>>)))
  @@ (HeadV :> File(2, 5))
  @@ ((HeadV \o <<".part001">>) :> File(2, 9))
  @@ ((HeadV \o <<".splitinfo">>) :> BrokenManifestFile(10))
  @@ (FileG :> File(4, 7))

\* A collection /a/ in whose listing one response has no resourcetype.
FileW == DirA \o <<"/", "w">>
UntypedTree ==
  (Root :> Collection(0)) @@ (DirA :> Collection(1)) @@ (FileF :> File(2, 2))
  @@ (FileW :> Untyped(1, 5)) @@ (FileG :> File(4, 7))

\* A collection /s.part001/ that holds a file k without an extension, a file
\* g.partial and a stray part g.part002; and /a/ with a file g.txt, where a
\* file g can be uploaded.
DirP == <<"/", "s", ".part001">>
FileK == DirP \o <<"/", "k">>
PartFolderTree ==
  (Root :> Collection(0)) @@ (DirP :> Collection(1)) @@ (FileK :> File(2, 2))
  @@ ((DirP \o <<"/", "g", ".partial">>) :> File(1, 3))
  @@ ((DirP \o <<"/", "g", ".part002">>) :> File(1, 4))
  @@ (DirA :> Collection(5)) @@ ((FileG \o <<".txt">>) :> File(1, 6))

ListingTrees == {WideTree, SplitTree, UntypedTree, PartFolderTree}

\* The answers of the backend that are not decided by its state.
PropfindStatuses == {207, 500}
DeleteStatuses == {204, 500}
CopyMoveStatuses == {201, 500}

\* ------------------------------------------------------------------- Utils
Restrict(f, S) == [k \in S |-> f[k]]

\* What the parser of propfind makes of one response element.
ParsedMeta(o) ==
  IF "typed" \in DOMAIN o THEN [content_length |-> o.len, etag |-> o.etag]
  ELSE IF o.coll THEN [is_collection |-> TRUE, etag |-> o.etag]
  ELSE [is_collection |-> FALSE, content_length |-> o.len, etag |-> o.etag]

\* Whether json.loads accepts the text.
IsJson(doc) == "json" \in DOMAIN doc

\* A get_split_info that writes the length before it has the manifest: a
\* failure leaves the head with the length 0.
get_split_info_eager(st, url, meta, ok) ==
  LET id == UrlToId(url)
  IN IF ~ok \/ id \notin DOMAIN st \/ st[id].body = <<>>
        \/ ~IsJson(st[id].body[1])
       THEN [meta EXCEPT !.content_length = 0]
     ELSE LET split_info == JsonLoads(st[id].body[1])
          IN [is_collection |-> meta.is_collection,
              content_length |-> split_info.meta.content_length,
              etag |-> meta.etag,
              split_info |-> split_info]

\* get_split_info: GET of the manifest and its merge into the head's meta.
\* `ok` is whether the backend serves the GET; any failure leaves the meta
\* as it was.
get_split_info(st, url, meta, ok) ==
  LET id == UrlToId(url)
  IN IF ~ok \/ id \notin DOMAIN st \/ st[id].body = <<>>
        \/ ~IsJson(st[id].body[1]) THEN meta
     ELSE LET split_info == JsonLoads(st[id].body[1])
          IN [is_collection |-> meta.is_collection,
              content_length |-> split_info.meta.content_length,
              etag |-> meta.etag,
              split_info |-> split_info]

\* The order in which the backend writes the responses of a listing: some
\* fixed order of the resources, or the reverse of it.
RECURSIVE SeqOf(_)
SeqOf(S) ==
  IF S = {} THEN <<>>
  ELSE LET x == CHOOSE x \in S : TRUE IN <<x>> \o SeqOf(S \ {x})
Reverse(s) == [i \in 1..Len(s) |-> s[Len(s) + 1 - i]]
ResponseOrder(sty, listed) ==
  IF sty.rev THEN Reverse(SeqOf(listed)) ELSE SeqOf(listed)

\* No PROPFIND was sent and no manifest was asked for.
NoGets == [status |-> 0, heads |-> {}, ok |-> FALSE]

\* A status test that lets every answer through.
StatusUsable_any(status_code) == TRUE
\* response.status_code != 207 returns None
StatusUsable(status_code) == status_code = 207

\* propfind: the Depth: 1 listing of folder_path parsed into href -> meta, and
\* the split-file pass over it.  `status` is the backend's answer when the
\* folder exists, `ok` whether it serves the manifests.  The result is a dict:
\* `order` is the order of its keys, that of the responses; `gets` are the
\* status of the PROPFIND, the heads whose manifest was asked for and whether
\* the backend served them.
propfind(st, sty, folder_path, status, ok) ==
  LET id == UrlToId(folder_path)
      listed == {id} \cup (IF st[id].coll THEN Children(st, id) ELSE {})
      hrefs == {Unquote(Href(st, sty, o)) : o \in listed}
      ResourceAt(key) == CHOOSE o \in listed : Unquote(Href(st, sty, o)) = key
      result == [key \in hrefs |-> ParsedMeta(st[ResourceAt(key)])]
      responses == ResponseOrder(sty, listed)
      keys == [i \in 1..Len(responses) |-> Unquote(Href(st, sty, responses[i]))]
      infos == {key \in hrefs : EndsWith(key, <<".splitinfo">>)}
      split_file_list ==
        {SubSeq(key, 1, Len(key) - 1) : key \in infos} \cap hrefs
      need_remove_list == infos \cup {key \in hrefs : LastExtensionIsPart(key)}
      Merged(key) ==
        IF key \in split_file_list
          THEN get_split_info(st, Quote(folder_path \o <<"/">> \o Basename(key)
                                        \o <<".splitinfo">>),
                              result[key], ok)
          ELSE result[key]
      raised == \E key \in hrefs : "is_collection" \notin DOMAIN result[key]
      status_code == IF id \in DOMAIN st THEN status ELSE 404
  IN IF id \notin DOMAIN st \/ ~StatusUsable(status_code) \/ raised
       THEN [none |-> TRUE, result |-> <<>>, order |-> <<>>,
             gets |-> [NoGets EXCEPT !.status = status_code]]
       ELSE [none |-> FALSE,
             result |-> [key \in hrefs \ need_remove_list |-> Merged(key)],
             gets |-> [status |-> status_code, heads |-> split_file_list,
                       ok |-> ok /\ split_file_list # {}],
             order |-> SelectSeq(keys, LAMBDA key : key \notin need_remove_list)]

\* ------------------------------------------------- the metadata cache
\* The key a listing's href is cached under.
CacheKey(key) ==
  IF StartsWith(key, BACKEND_URL) THEN DropFirst(key, Len(BACKEND_URL))
  ELSE IF backend_path # <<"/">> /\ StartsWith(key, backend_path)
    THEN DropFirst(key, Len(backend_path))
  ELSE key

\* The entries of the cache numbered again from the oldest (1) to the newest:
\* `ord` is the place of an entry in the linked list of the TTLCache.
Renumber(c) ==
  [k \in DOMAIN c |->
     [c[k] EXCEPT !.ord = Cardinality({j \in DOMAIN c : c[j].ord <= c[k].ord})]]

\* TTLCache.__setitem__ at time t: a key that is held is linked again as the
\* newest entry; for a new key in a full cache the oldest entry is dropped.
Store(c, t, key, value) ==
  LET full == key \notin DOMAIN c /\ Cardinality(DOMAIN c) >= METADATA_CACHE_SIZE
      kept == IF key \in DOMAIN c \/ full
                THEN Renumber(Restrict(c, {k \in DOMAIN c :
                                             k # key /\ (full => c[k].ord # 1)}))
                ELSE c
  IN [k \in DOMAIN kept \cup {key} |->
        IF k = key
          THEN [value |-> value, expires |-> t + METADATA_CACHE_TTL,
                ord |-> Cardinality(DOMAIN kept) + 1]
          ELSE kept[k]]

RECURSIVE StoreAll(_, _, _, _, _)
StoreAll(c, t, cacheData, order, i) ==
  IF i > Len(order) THEN c
  ELSE StoreAll(Store(c, t, CacheKey(order[i]), cacheData[order[i]]),
                t, cacheData, order, i + 1)

\* set_resource_meta at time t; also the loop of get_resource_meta.  cacheData
\* is a dict, `order` the order of its keys.
set_resource_meta(c, t, cacheData, order) == StoreAll(c, t, cacheData, order, 1)

\* The branch test without "not path.endswith('/')".
ClearsExactKey_anyPath(c, path) == path \in DOMAIN c
\* Which branch clear_resource_meta takes.
ClearsExactKey(c, path) == ~EndsWith(path, <<"/">>) /\ path \in DOMAIN c

\* A clear_resource_meta that pops nothing.
clear_resource_meta_keep(c, path) == c
\* clear_resource_meta
clear_resource_meta(c, path) ==
  IF ClearsExactKey(c, path) THEN Renumber(Restrict(c, DOMAIN c \ {path}))
  ELSE Renumber(Restrict(c, {key \in DOMAIN c : ~StartsWith(key, path)}))

\* get_resource_meta past its cache test, at time t: the folder of the path is
\* listed and every entry stored, then the path is read from the cache.  The
\* cache after the call, the meta returned (<<>> for None), whether a PROPFIND
\* was sent and what it listed.
get_resource_meta_miss(st, sty, c, t, path, status, ok) ==
  LET folder_path == Dirname(_get_backend_url(path))
      listing == propfind(st, sty, folder_path, status, ok)
      filled == set_resource_meta(c, t, listing.result, listing.order)
  IN IF listing.none
       THEN [cache |-> c, meta |-> <<>>, propfind |-> TRUE, result |-> <<>>,
             gets |-> listing.gets]
       ELSE [cache |-> filled,
             meta |-> IF path \in DOMAIN filled
                        THEN <<filled[path].value>> ELSE <<>>,
             propfind |-> TRUE, result |-> listing.result,
             gets |-> listing.gets]

\* get_resource_meta at time t, with refresh = False.
get_resource_meta(st, sty, c, t, path, status, ok) ==
  IF path \in DOMAIN c
    THEN [cache |-> c, meta |-> <<c[path].value>>, propfind |-> FALSE,
          result |-> <<>>, gets |-> NoGets]
  ELSE get_resource_meta_miss(st, sty, c, t, path, status, ok)

\* A timer that expires nothing.
Unexpired_all(c, t) == c
\* The entries of the cache that the timer has not expired at time t.
Unexpired(c, t) ==
  Renumber(Restrict(c, {k \in DOMAIN c : t < c[k].expires}))

\* ------------------------------------------------ requests to the backend
\* DELETE url: 404 for a missing resource, else `status`; a collection goes
\* with all that is below it.
HttpDelete(st, url, status) ==
  LET id == UrlToId(url)
  IN IF id \notin DOMAIN st THEN [be |-> st, status |-> 404]
     ELSE IF status \notin {200, 204} THEN [be |-> st, status |-> status]
     ELSE [be |-> Restrict(st, DOMAIN st \ ({id} \cup Below(st, id))),
           status |-> status]

\* COPY / MOVE url with the headers Destination and Overwrite.
HttpCopyMove(st, method, url, destination, overwrite, status) ==
  LET src == UrlToId(url)
      dst == UrlToId(destination)
      moved == {src} \cup Below(st, src)
      gone == {dst} \cup Below(st, dst)
                \cup (IF method = "MOVE" THEN moved ELSE {})
      made == {dst \o DropFirst(o, Len(src)) : o \in moved}
      Origin(n) == CHOOSE o \in moved : dst \o DropFirst(o, Len(src)) = n
  IN IF src \notin DOMAIN st THEN [be |-> st, status |-> 404]
     ELSE IF dst # Root /\ RSplitHead(dst) \notin DOMAIN st
       THEN [be |-> st, status |-> 409]
     ELSE IF dst \in DOMAIN st /\ overwrite = "F" THEN [be |-> st, status |-> 412]
     ELSE IF src = dst THEN [be |-> st, status |-> 403]
     ELSE IF status \notin {201, 204} THEN [be |-> st, status |-> status]
     ELSE [be |-> [n \in (DOMAIN st \ gone) \cup made |->
                     IF n \in made THEN st[Origin(n)] ELSE st[n]],
           status |-> IF dst \in DOMAIN st THEN 204 ELSE 201]

\* --------------------------------------------------- handles and calls
\* No request is in progress.  `stage` is how far the framework is with the
\* handle: "new" before the request's verb, "sent" after a copy or a move
\* (the framework may still call delete()), "done" at the end of the request.
NoHandle ==
  [kind |-> "none", path |-> <<>>, is_moved |-> FALSE, meta |-> <<>>,
   stage |-> "done"]
\* WebDAVProxyCollection / WebDAVProxyNonCollection after __init__
NewHandle(kind, path) ==
  [kind |-> kind, path |-> path, is_moved |-> FALSE, meta |-> <<>>,
   stage |-> "new"]

\* What a call did: the requests it sent that change the backend with their
\* statuses, the error list it returned, the status of the DAVError it raised
\* (0 for none, -1 for an AttributeError on a meta that is None), whether it
\* sent a PROPFIND and the listing it got (with the manifests it asked for),
\* the meta and the names it returned,
\* and (for delete, copy and move) the cache as it was when the call began.
NoOp ==
  [op |-> "none", path |-> <<>>, dest |-> <<>>, is_move |-> FALSE,
   skipped |-> FALSE, reqs |-> <<>>, ret |-> <<>>, raised |-> 0,
   propfind |-> FALSE, result |-> <<>>, meta |-> <<>>, names |-> {},
   before |-> <<>>, gets |-> NoGets]

NoChain == [path |-> <<>>, fetchT |-> -1, exists |-> FALSE, listed |-> FALSE]

\* Whether the backend holds a resource at the path.
Exists(path) == UrlToId(_get_backend_url(path)) \in DOMAIN be

\* The paths that requests name.
RequestPaths ==
  {<<"/", "a", "/">>, <<"/", "a">>, <<"/", "b", "/">>,
   FileF, HeadU, FileG, HeadU \o <<".part001">>}

\* The chain of get_resource_meta calls on one path after the call `r`.
ChainAfter(path, r) ==
  IF ~r.propfind THEN (IF chain.path = path THEN chain ELSE NoChain)
  ELSE IF r.result = <<>> THEN NoChain
  ELSE [path |-> path, fetchT |-> now, exists |-> Exists(path),
        listed |-> path \in {CacheKey(key) : key \in DOMAIN r.result}]

\* The answers of the backend matter to a lookup only when it misses the cache.
Answers(c, path, status, ok) == path \in DOMAIN c => (status = 207 /\ ok)

\* provider.get_resource_inst(path): a new request resolves its path through
\* get_resource_meta and gets its handle
GetResourceInst(path, status, ok) ==
  /\ served < MaxRequests
  /\ served' = served + 1
  /\ Answers(cache, path, status, ok)
  /\ \E r \in {get_resource_meta(be, style, cache, now, path, status, ok)} :
       /\ cache' = r.cache
       /\ h' = IF r.meta = <<>> THEN NoHandle
               ELSE IF r.meta[1].is_collection THEN NewHandle("coll", path)
               ELSE NewHandle("file", path)
       /\ lastOp' = [NoOp EXCEPT !.op = "get_resource_inst", !.path = path,
                                 !.propfind = r.propfind, !.result = r.result,
                                 !.meta = r.meta, !.gets = r.gets]
       /\ chain' = ChainAfter(path, r)
  /\ UNCHANGED <<be, style, now>>
  /\ UNCHANGED <<upVars, dlVars, thVars>>

\* name = href.replace(self.path, '', 1)
MemberName(href, path) ==
  IF StartsWith(href, path) THEN DropFirst(href, Len(path)) ELSE href

\* WebDAVProxyCollection.get_member_names
GetMemberNames(is_copy, status, ok) ==
  /\ h.kind = "coll"
  /\ h.stage = "new"
  /\ h' = [h EXCEPT !.stage = "done"]
  /\ is_copy => (status = 207 /\ ok)
  /\ IF is_copy
       THEN /\ lastOp' = [NoOp EXCEPT !.op = "get_member_names", !.path = h.path]
            /\ UNCHANGED cache
       ELSE \E listing \in {propfind(be, style, RStrip(_get_backend_url(h.path)),
                                     status, ok)} :
              /\ cache' = IF listing.none THEN cache
                          ELSE set_resource_meta(cache, now, listing.result,
                                                 listing.order)
              /\ lastOp' = [NoOp EXCEPT
                   !.op = "get_member_names", !.path = h.path,
                   !.propfind = TRUE, !.result = listing.result,
                   !.gets = listing.gets,
                   !.raised = IF listing.none THEN 404 ELSE 0,
                   !.names = {MemberName(href, h.path) :
                                href \in {CacheKey(key) : key \in DOMAIN listing.result}
                                           \ {h.path}}]
  /\ chain' = NoChain
  /\ UNCHANGED <<be, style, now, served>>
  /\ UNCHANGED <<upVars, dlVars, thVars>>

\* WebDAVProxyCollection.delete
CollectionDelete(status) ==
  /\ h.kind = "coll"
  /\ h.stage # "done"
  /\ h' = [h EXCEPT !.stage = "done"]
  /\ IF h.is_moved
       THEN /\ status = 204
            /\ lastOp' = [NoOp EXCEPT !.op = "delete",
                                      !.before = cache, !.path = h.path,
                                      !.skipped = TRUE]
            /\ UNCHANGED <<be, cache>>
       ELSE \E d \in {HttpDelete(be, _get_backend_url(h.path), status)} :
              /\ be' = d.be
              /\ cache' = IF d.status \in {200, 204}
                            THEN clear_resource_meta(cache, h.path) ELSE cache
              /\ lastOp' = [NoOp EXCEPT
                   !.op = "delete", !.before = cache, !.path = h.path,
                   !.reqs = <<[url |-> _get_backend_url(h.path),
                               status |-> d.status]>>,
                   !.ret = IF d.status \in {200, 204} THEN <<>>
                           ELSE <<[url |-> h.path, status |-> d.status]>>]
  /\ chain' = NoChain
  /\ UNCHANGED <<style, now, served>>
  /\ UNCHANGED <<upVars, dlVars, thVars>>

\* "if self.meta is None: self.meta = self.provider.get_resource_meta(self.path)"
LoadMeta(hh, status, ok) ==
  IF hh.meta # <<>>
    THEN [cache |-> cache, meta |-> hh.meta, propfind |-> FALSE, result |-> <<>>]
    ELSE get_resource_meta(be, style, cache, now, hh.path, status, ok)

\* self.meta.get('split_info')
HasSplitInfo(meta) == "split_info" \in DOMAIN meta

\* The loop without the [1:]: every entry of splitFileList.
FurtherParts_all(meta) == meta.split_info.splitFileList
\* for file in split_info.get('splitFileList')[1:]
FurtherParts(meta) == Tail(meta.split_info.splitFileList)

\* status_code not in (200, 204)
DeleteFailed(status) == status \notin {200, 204}

\* need_delete_list of delete()
need_delete_list(url, meta) ==
  <<url>> \o
  (IF HasSplitInfo(meta)
     THEN [i \in 1..Len(FurtherParts(meta)) |->
             RSplitHead(url) \o <<"/">> \o FurtherParts(meta)[i].fileName]
          \o <<url \o <<".splitinfo">>>>
     ELSE <<>>)

\* The DELETE loop of delete(): every URL is tried.
RECURSIVE DeleteAll(_, _, _)
DeleteAll(st, urls, sts) ==
  IF urls = <<>> THEN [be |-> st, reqs |-> <<>>]
  ELSE LET d == HttpDelete(st, Head(urls), Head(sts))
           rest == DeleteAll(d.be, Tail(urls), Tail(sts))
       IN [be |-> rest.be,
           reqs |-> <<[url |-> Head(urls), status |-> d.status]>> \o rest.reqs]

\* The error list of delete()
err_list(reqs) == SelectSeq(reqs, LAMBDA q : DeleteFailed(q.status))

\* WebDAVProxyNonCollection.delete
NonCollectionDelete(status, ok) ==
  /\ h.kind = "file"
  /\ h.stage # "done"
  /\ (h.is_moved \/ h.meta # <<>>) => (status = 207 /\ ok)
  /\ IF h.is_moved
       THEN /\ lastOp' = [NoOp EXCEPT !.op = "delete",
                                      !.before = cache, !.path = h.path,
                                      !.skipped = TRUE]
            /\ h' = [h EXCEPT !.stage = "done"]
            /\ UNCHANGED <<be, cache>>
       ELSE \E m \in {LoadMeta(h, status, ok)} :
              /\ Answers(cache, h.path, status, ok)
              /\ IF m.meta = <<>>
                   THEN /\ lastOp' = [NoOp EXCEPT !.op = "delete",
                                                  !.before = cache, !.path = h.path,
                                        !.propfind = m.propfind, !.raised = -1]
                        /\ cache' = m.cache
                        /\ h' = [h EXCEPT !.stage = "done"]
                        /\ UNCHANGED be
                   ELSE \E urls \in {need_delete_list(_get_backend_url(h.path),
                                                      m.meta[1])} :
                        \E sts \in [1..Len(urls) -> DeleteStatuses] :
                        \E d \in {DeleteAll(be, urls, sts)} :
                          /\ be' = d.be
                          /\ cache' = IF err_list(d.reqs) # <<>> THEN m.cache
                                      ELSE clear_resource_meta(m.cache, h.path)
                          /\ h' = [h EXCEPT !.meta = m.meta, !.stage = "done"]
                          /\ lastOp' = [NoOp EXCEPT
                               !.op = "delete",
                               !.before = cache, !.path = h.path,
                               !.propfind = m.propfind, !.meta = m.meta,
                               !.reqs = d.reqs, !.ret = err_list(d.reqs)]
  /\ chain' = NoChain
  /\ UNCHANGED <<style, now, served>>
  /\ UNCHANGED <<upVars, dlVars, thVars>>

\* '.' + file['fileName'].split('.')[-1]
LastExtension(fileName) ==
  IF LastDot(fileName) > 0 THEN DropFirst(fileName, LastDot(fileName) - 1)
  ELSE <<".">> \o fileName

\* A handle that is marked whatever the backend answered.
is_moved_unchecked(was, is_move, failed) == is_move
\* self.is_moved after copy_move_single / move_recursive: the assignment is
\* reached only when no request failed.
is_moved_after(was, is_move, failed) == IF failed THEN was ELSE is_move

\* need_handle_list of copy_move_single()
need_handle_list(url, dest_url, meta) ==
  <<<<url, dest_url>>>> \o
  (IF HasSplitInfo(meta)
     THEN [i \in 1..Len(FurtherParts(meta)) |->
             <<RSplitHead(url) \o <<"/">> \o FurtherParts(meta)[i].fileName,
               dest_url \o LastExtension(FurtherParts(meta)[i].fileName)>>]
          \o <<<<url \o <<".splitinfo">>, dest_url \o <<".splitinfo">>>>>>
     ELSE <<>>)

\* The request loop of copy_move_single(): the first rejected pair raises.
\* `reject` is the pair that the backend answers with 500, 0 for none.
RECURSIVE CopyMoveAll(_, _, _, _, _, _)
CopyMoveAll(st, method, pairs, overwrite, reject, i) ==
  IF i > Len(pairs) THEN [be |-> st, reqs |-> <<>>, raised |-> 0]
  ELSE LET r == HttpCopyMove(st, method, pairs[i][1], Quote(pairs[i][2]),
                             overwrite, IF i = reject THEN 500 ELSE 201)
           q == [url |-> pairs[i][1], status |-> r.status]
           rest == CopyMoveAll(r.be, method, pairs, overwrite, reject, i + 1)
       IN IF r.status \notin {201, 204}
            THEN [be |-> r.be, reqs |-> <<q>>, raised |-> r.status]
            ELSE [be |-> rest.be, reqs |-> <<q>> \o rest.reqs,
                  raised |-> rest.raised]

\* WebDAVProxyNonCollection.copy_move_single
NonCollectionCopyMoveSingle(dest_path, is_move, overwrite, status, ok) ==
  /\ h.kind = "file"
  /\ h.stage = "new"
  /\ h.meta # <<>> => (status = 207 /\ ok)
  /\ Answers(cache, h.path, status, ok)
  /\ \E m \in {LoadMeta(h, status, ok)} :
       IF m.meta = <<>>
         THEN /\ lastOp' = [NoOp EXCEPT !.op = "copy_move_single",
                                        !.before = cache,
                              !.path = h.path, !.dest = dest_path,
                              !.is_move = is_move,
                              !.propfind = m.propfind, !.raised = -1]
              /\ cache' = m.cache
              /\ h' = [h EXCEPT !.stage = "done"]
              /\ UNCHANGED be
         ELSE \E pairs \in {need_handle_list(_get_backend_url(h.path),
                                             _get_backend_url(dest_path),
                                             m.meta[1])} :
              \E reject \in 0..Len(pairs) :
              \E r \in {CopyMoveAll(be, IF is_move THEN "MOVE" ELSE "COPY",
                                    pairs, overwrite, reject, 1)} :
                /\ be' = r.be
                /\ cache' = m.cache
                /\ h' = [h EXCEPT !.meta = m.meta, !.stage = "sent",
                                  !.is_moved = is_moved_after(@, is_move, r.raised # 0)]
                /\ lastOp' = [NoOp EXCEPT !.op = "copy_move_single",
                                          !.before = cache,
                                !.path = h.path, !.dest = dest_path,
                                !.is_move = is_move, !.meta = m.meta,
                                !.propfind = m.propfind,
                                !.reqs = r.reqs, !.raised = r.raised]
  /\ chain' = NoChain
  /\ UNCHANGED <<style, now, served>>
  /\ UNCHANGED <<upVars, dlVars, thVars>>

\* WebDAVProxyCollection.copy_move_single
CollectionCopyMoveSingle(dest_path, is_move, overwrite, status) ==
  /\ h.kind = "coll"
  /\ h.stage = "new"
  /\ \E r \in {HttpCopyMove(be, IF is_move THEN "MOVE" ELSE "COPY",
                            _get_backend_url(h.path),
                            Quote(_get_backend_url(dest_path)), overwrite,
                            status)} :
     LET failed == r.status \notin {201, 204}
     IN /\ be' = r.be
        /\ h' = [h EXCEPT !.stage = "sent",
                          !.is_moved = is_moved_after(@, is_move, failed)]
        /\ lastOp' = [NoOp EXCEPT !.op = "copy_move_single",
                                  !.before = cache, !.path = h.path,
                        !.dest = dest_path, !.is_move = is_move,
                        !.reqs = <<[url |-> _get_backend_url(h.path),
                                    status |-> r.status]>>,
                        !.raised = IF failed THEN r.status ELSE 0]
  /\ chain' = NoChain
  /\ UNCHANGED <<style, cache, now, served>>
  /\ UNCHANGED <<upVars, dlVars, thVars>>

\* WebDAVProxyCollection.move_recursive
MoveRecursive(dest_path, overwrite, status) ==
  /\ h.kind = "coll"
  /\ h.stage = "new"
  /\ \E r \in {HttpCopyMove(be, "MOVE", _get_backend_url(h.path),
                            Quote(_get_backend_url(dest_path)), overwrite,
                            status)} :
     LET failed == r.status \notin {201, 204}
     IN /\ be' = r.be
        /\ h' = [h EXCEPT !.stage = "sent",
                          !.is_moved = is_moved_after(@, TRUE, failed)]
        /\ lastOp' = [NoOp EXCEPT !.op = "move_recursive",
                                  !.before = cache, !.path = h.path,
                        !.dest = dest_path, !.is_move = TRUE,
                        !.reqs = <<[url |-> _get_backend_url(h.path),
                                    status |-> r.status]>>,
                        !.ret = IF failed
                                  THEN <<[url |-> h.path, status |-> r.status]>>
                                  ELSE <<>>]
  /\ chain' = NoChain
  /\ UNCHANGED <<style, cache, now, served>>
  /\ UNCHANGED <<upVars, dlVars, thVars>>

\* The timer of the TTLCache advances; what has expired is no longer held.
Tick ==
  /\ now < MaxTime
  /\ now' = now + 1
  /\ cache' = Unexpired(cache, now + 1)
  /\ lastOp' = [NoOp EXCEPT !.op = "tick"]
  /\ UNCHANGED <<be, style, h, chain, served>>
  /\ UNCHANGED <<upVars, dlVars, thVars>>

\* A request that ends in provider.clear_resource_meta(path) and nothing else
\* that the cache sees, as end_write() does for the path of an upload.
ClearResourceMeta(path) ==
  /\ served < MaxRequests
  /\ served' = served + 1
  /\ cache' = clear_resource_meta(cache, path)
  /\ h' = NoHandle
  /\ lastOp' = [NoOp EXCEPT !.op = "clear_resource_meta", !.path = path,
                            !.before = cache]
  /\ chain' = NoChain
  /\ UNCHANGED <<be, style, now>>
  /\ UNCHANGED <<upVars, dlVars, thVars>>

\* Where a file and where a collection is copied or moved to.
FileDests == {FileG}
CollectionDests == {DirB \o <<"/">>}

\* No request has reached the provider: the cache is empty.
ProviderInit ==
  /\ cache = <<>>
  /\ now = 0
  /\ h = NoHandle
  /\ lastOp = NoOp
  /\ chain = NoChain
  /\ served = 0

\* The path of the file that the upload proxy writes, and the handle that
\* begin_write() was called on: the path was resolved, so its meta is cached.
UploadPath == <<"/", file_name>>
UploadHandleInit ==
  /\ be = <<>>
  /\ style = [abs |-> FALSE, slash |-> TRUE, rev |-> FALSE]
  /\ cache = (UploadPath :> [value |-> ParsedMeta(File(0, 0)),
                             expires |-> METADATA_CACHE_TTL, ord |-> 1])
  /\ now = 0
  /\ h = NewHandle("file", UploadPath)
  /\ lastOp = NoOp
  /\ chain = NoChain
  /\ served = 0

\* end_write() has not been called.
NotEnded == [called |-> FALSE, with_errors |-> FALSE, error |-> None,
             raised |-> FALSE]

\* WebDAVProxyNonCollection.end_write, which the framework calls after close()
EndWrite(with_errors) ==
  /\ wr = "closed"
  /\ ~ew.called
  /\ IF with_errors
       THEN /\ ew' = [NotEnded EXCEPT !.called = TRUE, !.with_errors = TRUE]
            /\ UNCHANGED <<cache, h>>
       ELSE /\ ew' = [NotEnded EXCEPT !.called = TRUE, !.error = get_status.error]
            /\ h' = [h EXCEPT !.meta = <<>>]
            /\ cache' = clear_resource_meta(cache, h.path)
  /\ UNCHANGED <<queue, upload_status, total_uploaded_bytes, error_message,
                 temp_data, uploaded_bytes, file_split_info, closed,
                 file_split_index, wpc, body, wr, wdata, store, puts, input,
                 chunks, lastWrite, wAfterReject, rt>>
  /\ UNCHANGED <<be, style, now, lastOp, chain, served>>
  /\ UNCHANGED <<dlVars, thVars>>

\* ------------------------------------------------- threads on the cache
\* The server hands every request to a worker thread; all of them call the one
\* provider and its one resource_meta_cache, and the provider takes no lock.
\* A thread can be rescheduled between any two calls on the cache, so a
\* provider method is as many steps as it makes calls on the cache.
Threads == 1..MaxThreads

NoCall == [pc |-> "idle", path |-> <<>>, key |-> <<>>, calls |-> 0,
           out |-> "none"]

\* What the threads look up, and what they clear.
ThreadPaths == {FileF, FileG}
ThreadClears == {FileF, DirA \o <<"/">>}

Returns(t, out) ==
  threads' = [threads EXCEPT ![t].pc = "idle", ![t].out = out]

\* get_resource_meta: "path in self.resource_meta_cache"
GetMetaTest(t, path) ==
  /\ threads[t].pc = "idle"
  /\ threads[t].calls < MaxCalls
  /\ threads' = [threads EXCEPT ![t] =
       [pc |-> IF path \in DOMAIN cache THEN "get_read" ELSE "get_fetch",
        path |-> path, key |-> <<>>, calls |-> @.calls + 1, out |-> "none"]]
  /\ UNCHANGED <<upVars, dlVars, pvVars>>

\* get_resource_meta: "return self.resource_meta_cache[path]", which raises
\* KeyError when the key is no longer held
GetMetaRead(t) ==
  /\ threads[t].pc = "get_read"
  /\ Returns(t, IF threads[t].path \in DOMAIN cache THEN "meta" ELSE "KeyError")
  /\ UNCHANGED <<upVars, dlVars, pvVars>>

\* get_resource_meta: the PROPFIND, the stores and the final .get(path)
GetMetaFetch(t, status, ok) ==
  /\ threads[t].pc = "get_fetch"
  /\ \E r \in {get_resource_meta_miss(be, style, cache, now, threads[t].path,
                                      status, ok)} :
       /\ cache' = r.cache
       /\ Returns(t, IF r.meta = <<>> THEN "None" ELSE "meta")
  /\ UNCHANGED <<be, style, now, h, lastOp, chain, served>>
  /\ UNCHANGED <<upVars, dlVars>>

\* get_member_names: the listing of a collection and set_resource_meta
SetMeta(t, path, status, ok) ==
  /\ threads[t].pc = "idle"
  /\ threads[t].calls < MaxCalls
  /\ \E listing \in {propfind(be, style, RStrip(_get_backend_url(path)),
                              status, ok)} :
       cache' = IF listing.none THEN cache
                ELSE set_resource_meta(cache, now, listing.result, listing.order)
  /\ threads' = [threads EXCEPT ![t] =
       [pc |-> "idle", path |-> path, key |-> <<>>, calls |-> @.calls + 1,
        out |-> "stored"]]
  /\ UNCHANGED <<be, style, now, h, lastOp, chain, served>>
  /\ UNCHANGED <<upVars, dlVars>>

\* clear_resource_meta: "not path.endswith('/') and path in cache"
ClearTest(t, path) ==
  /\ threads[t].pc = "idle"
  /\ threads[t].calls < MaxCalls
  /\ threads' = [threads EXCEPT ![t] =
       [pc |-> IF ClearsExactKey(cache, path) THEN "clear_pop" ELSE "clear_scan",
        path |-> path, key |-> <<>>, calls |-> @.calls + 1, out |-> "none"]]
  /\ UNCHANGED <<upVars, dlVars, pvVars>>

\* clear_resource_meta: "self.resource_meta_cache.pop(path)", which raises
\* KeyError when the key is no longer held
ClearPop(t) ==
  /\ threads[t].pc = "clear_pop"
  /\ IF threads[t].path \in DOMAIN cache
       THEN /\ cache' = clear_resource_meta(cache, threads[t].path)
            /\ Returns(t, "cleared")
       ELSE /\ UNCHANGED cache
            /\ Returns(t, "KeyError")
  /\ UNCHANGED <<be, style, now, h, lastOp, chain, served>>
  /\ UNCHANGED <<upVars, dlVars>>

\* clear_resource_meta: the loop reaches the next key that starts with path,
\* or the end of the cache
ClearScan(t) ==
  /\ threads[t].pc = "clear_scan"
  /\ LET matching == {key \in DOMAIN cache : StartsWith(key, threads[t].path)}
     IN IF matching = {}
          THEN Returns(t, "cleared")
          ELSE \E key \in matching :
                 threads' = [threads EXCEPT ![t].pc = "clear_popkey",
                                            ![t].key = key]
  /\ UNCHANGED <<upVars, dlVars, pvVars>>

\* clear_resource_meta: "self.resource_meta_cache.pop(key)" in the loop
ClearPopKey(t) ==
  /\ threads[t].pc = "clear_popkey"
  /\ IF threads[t].key \in DOMAIN cache
       THEN /\ cache' = Renumber(Restrict(cache, DOMAIN cache \ {threads[t].key}))
            /\ threads' = [threads EXCEPT ![t].pc = "clear_scan"]
       ELSE /\ UNCHANGED cache
            /\ Returns(t, "KeyError")
  /\ UNCHANGED <<be, style, now, h, lastOp, chain, served>>
  /\ UNCHANGED <<upVars, dlVars>>

\* ------------------------------------------- reading an uploaded file back
NotRead == [read |-> FALSE, err |-> FALSE, data |-> <<>>]

\* The framework reading a stream to its end: read(n) until it returns b''.
RECURSIVE ReadToEof(_, _, _, _, _)
ReadToEof(st, cs, p, n, acc) ==
  LET r == read(st, cs, p, n)
  IN IF r.err THEN [read |-> TRUE, err |-> TRUE, data |-> <<>>]
     ELSE IF r.data = <<>> THEN [read |-> TRUE, err |-> FALSE, data |-> acc]
     ELSE ReadToEof(st, cs, r.p, n, acc \o r.data)

\* No step of the upload is left: close() returned, and the worker ended or
\* waits in queue.get() for an item that no one will put.
WorkerWaitsForever == wpc = "put" /\ temp_data.none /\ queue = <<>>
Quiescent == wr = "closed" /\ (wpc = "done" \/ WorkerWaitsForever)

\* get_content() after the upload: the meta is listed afresh, a download proxy
\* is built from it and read to the end.
RoundTrip ==
  /\ Quiescent
  /\ ~rt.read
  /\ \E cs \in 1..MaxIterChunk, n \in {-1} \cup 1..MaxRead :
       rt' = ReadToEof(store, cs,
                       DownloadProxyInit(ResolvedMeta(store, backend_url)), n, <<>>)
  /\ UNCHANGED <<queue, upload_status, total_uploaded_bytes, error_message,
                 temp_data, uploaded_bytes, file_split_info, closed,
                 file_split_index, wpc, body, wr, wdata, store, puts, input,
                 chunks, lastWrite, wAfterReject, ew>>
  /\ UNCHANGED <<dlVars, pvVars, thVars>>

\* A stream of the proxy raised the transport's error between p and q.
StreamBroke(p, q) ==
  \/ q.stream.raised /\ ~p.stream.raised
  \/ q.cps.raised /\ ~p.cps.raised

NoRead == [done |-> FALSE, fresh |-> TRUE, pos |-> 0, size |-> 0, data |-> <<>>,
           err |-> FALSE, afterSeek |-> -1, refused |-> FALSE, broke |-> FALSE]

\* No download is going on.
DlIdleInit ==
  /\ dl = DownloadProxyInit(<<>>)
  /\ dlChunk = 1
  /\ content = <<>>
  /\ dlOut = <<>>
  /\ dlSeeked = FALSE
  /\ lastSeek = -1
  /\ lastRead = NoRead
  /\ cut = <<>>

UploadInit ==
  /\ UploadProxyInit
  /\ store = <<>>
  /\ rt = NotRead
  /\ ew = NotEnded
  /\ DlIdleInit
  /\ UploadHandleInit
  /\ threads = [t \in Threads |-> NoCall]

UploadNext ==
  \/ \E n \in 1..MaxChunk : WriteCheck(n)
  \/ WritePut
  \/ CloseCheck
  \/ ClosePut
  \/ CloseJoin
  \/ GenStep
  \/ PutResponse
  \/ AfterLoop
  \/ ManifestResponse
  \/ RoundTrip
  \/ \E with_errors \in BOOLEAN : EndWrite(with_errors)

SpecUpload == UploadInit /\ [][UploadNext]_vars

\* _upload_worker: requests.put returns for a part beyond the MaxParts parts
\* whose PUTs are recorded.  The loop body is the one of PutResponse; the part
\* counter stays at MaxParts and puts, store and the manifest's list, which
\* grow by one entry per part, are left as they are.
PutResponseBeyond ==
  /\ wpc = "resp"
  /\ file_split_index = MaxParts
  /\ \E st \in PutStatuses :
       IF ~PutAccepted(st)
         THEN /\ error_message' = "upload failed"
              /\ upload_status' = STATUS_ERROR
              /\ wpc' = "after_loop"
              /\ UNCHANGED <<total_uploaded_bytes, uploaded_bytes, body>>
         ELSE /\ total_uploaded_bytes' = total_uploaded_bytes + uploaded_bytes
              /\ uploaded_bytes' = 0
              /\ body' = <<>>
              /\ wpc' = IF temp_data.none THEN "after_loop" ELSE "put"
              /\ UNCHANGED <<error_message, upload_status>>
  /\ UNCHANGED <<queue, temp_data, file_split_info, closed, file_split_index,
                 wr, wdata, store, puts, input, chunks, lastWrite,
                 wAfterReject>>
  /\ UNCHANGED <<rt, ew, dlVars, pvVars, thVars>>

\* The steps of the worker thread, and the steps of the writing thread inside
\* write() and close(): the blocking puts and the join.
WorkerStep ==
  GenStep \/ PutResponse \/ PutResponseBeyond \/ AfterLoop \/ ManifestResponse
WriterStep == WritePut \/ ClosePut \/ CloseJoin

UploadLiveNext ==
  \/ \E n \in 1..MaxChunk : WriteCheck(n)
  \/ WritePut
  \/ CloseCheck
  \/ ClosePut
  \/ CloseJoin
  \/ GenStep
  \/ PutResponse
  \/ PutResponseBeyond
  \/ AfterLoop
  \/ ManifestResponse

\* The upload with its two threads scheduled fairly and a backend that answers
\* every PUT: a thread that can take a step takes one in the end.  Whether and
\* when the framework calls write() or close() is left open.
SpecUploadLive ==
  /\ UploadInit
  /\ [][UploadLiveNext]_vars
  /\ WF_vars(WorkerStep)
  /\ WF_vars(WriterStep)

\* get_content() after the upload, for a request with a Range: the meta is
\* listed afresh, a download proxy is built from it, and the framework calls
\* seek(k) and then read(n) on it.
ReadBackAt(k, n) ==
  /\ Quiescent
  /\ ~lastRead.done
  /\ \E cs \in 1..MaxIterChunk :
     \E p \in {seek(DownloadProxyInit(ResolvedMeta(store, backend_url)),
                    k, "SEEK_SET")} :
     \E r \in {read(store, cs, p, n)} :
        /\ dl' = r.p
        /\ dlChunk' = cs
        /\ content' = input
        /\ dlOut' = <<>>
        /\ dlSeeked' = TRUE
        /\ lastSeek' = -1
        /\ lastRead' = [done |-> TRUE, fresh |-> FALSE, pos |-> p.position,
                        size |-> n, data |-> r.data, err |-> r.err,
                        afterSeek |-> p.position, refused |-> r.p.refused,
                        broke |-> StreamBroke(p, r.p)]
  /\ UNCHANGED <<upVars, cut, pvVars, thVars>>

UploadSeekNext ==
  \/ \E n \in 1..MaxChunk : WriteCheck(n)
  \/ WritePut
  \/ CloseCheck
  \/ ClosePut
  \/ CloseJoin
  \/ GenStep
  \/ PutResponse
  \/ AfterLoop
  \/ ManifestResponse
  \/ \E k \in 0..MaxBytes, n \in 1..MaxRead : ReadBackAt(k, n)

SpecUploadSeek == UploadInit /\ [][UploadSeekNext]_vars

\* --------------------------------------------------------- download runs
\* The bytes first+1 .. first+n.
Bytes(first, n) == [i \in 1..n |-> first + i]

\* A backend holding a split file with the given part sizes, its manifest
\* declaring them, and the logical content 1 .. L laid over the parts in order.
SplitStore(sizes) ==
  LET starts == [i \in 1..Len(sizes) |-> SumSeq(SubSeq(sizes, 1, i - 1))]
      manifest ==
        [meta |-> [content_length |-> SumSeq(sizes)],
         splitFileList |->
           [i \in 1..Len(sizes) |-> [fileName |-> PartName(i - 1),
                                      fileSize |-> sizes[i]]]]
  IN [u \in {PartUrl(i - 1) : i \in 1..Len(sizes)} \cup {backend_url \o ".splitinfo"} |->
        IF u = backend_url \o ".splitinfo" THEN JsonDumps(manifest)
        ELSE LET i == CHOOSE j \in 1..Len(sizes) : PartUrl(j - 1) = u
             IN Bytes(starts[i], sizes[i])]

\* A backend holding a single file of the given length.
PlainStore(len) == (backend_url :> Bytes(0, len))

DlStores ==
  {SplitStore(sizes) :
     sizes \in UNION {[1..k -> 0..MaxPartSize] : k \in 1..MaxDlParts}}
  \cup {PlainStore(len) : len \in 0..MaxFileLen}

\* A download proxy built from the meta listed when the backend held `listed`,
\* reading from the backend `st` over connections that break as `c` tells.
DownloadStart(listed, st, c) ==
  /\ UploadProxyInit
  /\ rt = NotRead
  /\ ew = NotEnded
  /\ be = <<>>
  /\ style = [abs |-> FALSE, slash |-> TRUE, rev |-> FALSE]
  /\ ProviderInit
  /\ store = st
  /\ dlChunk \in 1..MaxIterChunk
  /\ dl = DownloadProxyInit(ResolvedMeta(listed, backend_url))
  /\ content = Bytes(0, dl.content_length)
  /\ dlOut = <<>>
  /\ dlSeeked = FALSE
  /\ lastSeek = -1
  /\ lastRead = NoRead
  /\ cut = c
  /\ threads = [t \in Threads |-> NoCall]

DownloadInit == \E st \in DlStores : DownloadStart(st, st, <<>>)

\* read(size) called by the framework
DlRead(size) ==
  \E r \in {read(store, dlChunk, [dl EXCEPT !.refused = FALSE], size)} :
     /\ dl' = r.p
     /\ lastRead' = [done |-> TRUE, fresh |-> ~dlSeeked, pos |-> dl.position,
                     size |-> size, data |-> r.data, err |-> r.err,
                     afterSeek |-> lastSeek, refused |-> r.p.refused,
                     broke |-> StreamBroke(dl, r.p)]
     /\ lastSeek' = -1
     /\ dlOut' = IF dlSeeked THEN dlOut ELSE dlOut \o r.data
     /\ UNCHANGED <<dlChunk, content, dlSeeked, cut>>
     /\ UNCHANGED <<upVars, pvVars, thVars>>

\* seek(offset, whence) called by the framework
DlSeek(offset, whence) ==
  /\ dl' = seek(dl, offset, whence)
  /\ lastSeek' = dl'.position
  /\ dlSeeked' = TRUE
  /\ dlOut' = <<>>
  /\ lastRead' = NoRead
  /\ UNCHANGED <<dlChunk, content, cut>>
  /\ UNCHANGED <<upVars, pvVars, thVars>>

DownloadNext ==
  \/ \E size \in {-1} \cup 0..MaxRead : DlRead(size)
  \/ \E offset \in 0..dl.content_length : DlSeek(offset, "SEEK_SET")
  \/ \E offset \in {-1, 1} : DlSeek(offset, "SEEK_CUR")
  \/ \E offset \in {-1, 0} : DlSeek(offset, "SEEK_END")

SpecDownload == DownloadInit /\ [][DownloadNext]_vars

\* Downloads that meet a failure of the backend: the connection of the GETs for
\* one of the file's resources breaks before the whole body arrived, or one of
\* the resources listed is gone when the proxy asks for it.
DataUrls(st) == DOMAIN st \ {backend_url \o ".splitinfo"}

TransferInit ==
  \E st \in DlStores : \E url \in DataUrls(st) :
     \/ \E k \in 0..(Len(st[url]) - 1) : DownloadStart(st, st, url :> k)
     \/ DownloadStart(st, Restrict(st, DOMAIN st \ {url}), <<>>)

SpecTransfer == TransferInit /\ [][DownloadNext]_vars

\* ----------------------------------------------------------- provider runs
ProviderRunInit ==
  /\ be = InitTree
  /\ style \in [abs : BOOLEAN, slash : BOOLEAN, rev : {FALSE}]
  /\ ProviderInit
  /\ UploadProxyInit
  /\ store = <<>>
  /\ rt = NotRead
  /\ ew = NotEnded
  /\ DlIdleInit
  /\ threads = [t \in Threads |-> NoCall]

ProviderNext ==
  \/ \E path \in RequestPaths, status \in PropfindStatuses, ok \in BOOLEAN :
       GetResourceInst(path, status, ok)
  \/ \E is_copy \in BOOLEAN, status \in PropfindStatuses, ok \in BOOLEAN :
       GetMemberNames(is_copy, status, ok)
  \/ \E status \in DeleteStatuses : CollectionDelete(status)
  \/ \E status \in PropfindStatuses, ok \in BOOLEAN : NonCollectionDelete(status, ok)
  \/ \E dest_path \in FileDests, is_move \in BOOLEAN, overwrite \in {"T", "F"},
        status \in PropfindStatuses, ok \in BOOLEAN :
       NonCollectionCopyMoveSingle(dest_path, is_move, overwrite, status, ok)
  \/ \E dest_path \in CollectionDests, is_move \in BOOLEAN, overwrite \in {"T", "F"},
        status \in CopyMoveStatuses :
       CollectionCopyMoveSingle(dest_path, is_move, overwrite, status)
  \/ \E dest_path \in CollectionDests, overwrite \in {"T", "F"},
        status \in CopyMoveStatuses :
       MoveRecursive(dest_path, overwrite, status)
  \/ Tick

SpecProvider == ProviderRunInit /\ [][ProviderNext]_vars

\* Worker threads on the cache of one provider, with the timer of the cache.
ThreadsInit ==
  /\ be = InitTree
  /\ style \in [abs : {FALSE}, slash : BOOLEAN, rev : {FALSE}]
  /\ ProviderInit
  /\ UploadProxyInit
  /\ store = <<>>
  /\ rt = NotRead
  /\ ew = NotEnded
  /\ DlIdleInit
  /\ threads = [t \in Threads |-> NoCall]

ThreadsNext ==
  \/ \E t \in Threads, path \in ThreadPaths : GetMetaTest(t, path)
  \/ \E t \in Threads : GetMetaRead(t)
  \/ \E t \in Threads, status \in PropfindStatuses, ok \in BOOLEAN :
       GetMetaFetch(t, status, ok)
  \/ \E t \in Threads, path \in ThreadClears, status \in PropfindStatuses,
        ok \in BOOLEAN :
       SetMeta(t, path, status, ok)
  \/ \E t \in Threads, path \in ThreadClears : ClearTest(t, path)
  \/ \E t \in Threads : ClearPop(t)
  \/ \E t \in Threads : ClearScan(t)
  \/ \E t \in Threads : ClearPopKey(t)
  \/ Tick

SpecThreads == ThreadsInit /\ [][ThreadsNext]_vars

\* Lookups and listings over backend trees of several shapes, with listings in
\* either order.
ListingPaths ==
  WideFiles \cup {DirA \o <<"/">>, DirP \o <<"/">>, FileF, FileG, HeadU, HeadV,
                  FileW, FileK}

ClearedPaths == {FileG, FileK, DirA \o <<"/">>}

ListingInit ==
  /\ be \in ListingTrees
  /\ style \in [abs : BOOLEAN, slash : BOOLEAN, rev : BOOLEAN]
  /\ ProviderInit
  /\ UploadProxyInit
  /\ store = <<>>
  /\ rt = NotRead
  /\ ew = NotEnded
  /\ DlIdleInit
  /\ threads = [t \in Threads |-> NoCall]

ListingNext ==
  \/ \E path \in ListingPaths, status \in PropfindStatuses, ok \in BOOLEAN :
       GetResourceInst(path, status, ok)
  \/ \E is_copy \in BOOLEAN, status \in PropfindStatuses, ok \in BOOLEAN :
       GetMemberNames(is_copy, status, ok)
  \/ \E path \in ClearedPaths : ClearResourceMeta(path)
  \/ Tick

SpecListing == ListingInit /\ [][ListingNext]_vars

\* ================================================================== claims
\* The part PUTs and the manifest PUTs answered so far.
PartPuts == SelectSeq(puts, LAMBDA q : ~q.manifest)
ManifestPuts == SelectSeq(puts, LAMBDA q : q.manifest)
AcceptedParts == SelectSeq(PartPuts, LAMBDA q : PutAccepted(q.status))

\* The physical parts the backend holds: url, url.part001, ... in that order.
StoredParts ==
  LET ks == {k \in 0..(MaxParts + 1) : PartUrl(k) \in DOMAIN store}
  IN [i \in 1..Cardinality(ks) |-> store[PartUrl(i - 1)]]

\* C1: once the upload has come to rest after close() with every PUT accepted,
\* the backend holds the parts url, url.part001, ... and their concatenation in
\* that order is the written input, whatever the chunking and the interleaving
\* of writer and worker.
C1_BackendHoldsInput ==
  (Quiescent /\ ~Rejected) =>
     /\ backend_url \in DOMAIN store
     /\ Flatten(StoredParts) = input

\* C2: when close() has returned on an upload whose PUTs were all accepted, the
\* worker has ended, the status is DONE and get_status() reports as
\* uploaded_bytes the number of bytes passed to write().
C2_CloseReportsDone ==
  (closed /\ ~Rejected) =>
     /\ wpc = "done"
     /\ get_status.status = STATUS_DONE
     /\ get_status.uploaded_bytes = Len(input)

\* The PUTs go to u, u.part001, u.part002, ... in that order, and a manifest
\* PUT, to u.splitinfo, is the last one.
PutOrder ==
  /\ \A i \in 1..Len(PartPuts) : PartPuts[i].url = PartUrl(i - 1)
  /\ \A i \in 1..Len(puts) :
       puts[i].manifest =>
         i = Len(puts) /\ puts[i].url = backend_url \o ".splitinfo"

\* The longest run of whole chunks at the head of cs that fits in `room` bytes.
RECURSIVE TakeFit(_, _)
TakeFit(cs, room) ==
  IF cs = <<>> \/ Len(Head(cs)) > room THEN <<>>
  ELSE <<Head(cs)>> \o TakeFit(Tail(cs), room - Len(Head(cs)))

\* The k-th part (k >= 1) when the chunks cs are packed whole, in order, each
\* part taking the longest run of chunks of at most FILE_MAX_SIZE bytes.
RECURSIVE PackedPart(_, _)
PackedPart(cs, k) ==
  LET first == TakeFit(cs, FILE_MAX_SIZE)
  IN IF k = 1 THEN Flatten(first)
     ELSE PackedPart(SubSeq(cs, Len(first) + 1, Len(cs)), k - 1)

\* C3 as amended: the PUTs go to u, u.part001, ..., then u.splitinfo; chunks are
\* never cut, each part holds the longest run of whole consecutive chunks of at
\* most FILE_MAX_SIZE bytes (so a part before the last may hold fewer), and when
\* the worker has ended with every PUT accepted the manifest's content_length
\* is the number of bytes written.
C3_PartsPackWholeChunks ==
  /\ PutOrder
  /\ \A i \in 1..Len(PartPuts) :
       /\ PartPuts[i].body = PackedPart(chunks, i)
       /\ Len(PartPuts[i].body) <= FILE_MAX_SIZE
  /\ (wpc = "done" /\ ~Rejected /\ Len(ManifestPuts) > 0) =>
        JsonLoads(ManifestPuts[1].body).meta.content_length = Len(input)

\* C3, the case of the claim scaled to FILE_MAX_SIZE = 3: seven bytes written in
\* chunks of 2, 2, 2, 1 have been uploaded as parts of 2, 2 and 3 bytes with a
\* manifest of content_length 7.
C3_Witness ==
  /\ wpc = "done" /\ ~Rejected
  /\ [i \in 1..Len(chunks) |-> Len(chunks[i])] = <<2, 2, 2, 1>>
  /\ [i \in 1..Len(PartPuts) |-> Len(PartPuts[i].body)] = <<2, 2, 3>>
  /\ Len(ManifestPuts) = 1
  /\ JsonLoads(ManifestPuts[1].body).meta.content_length = 7

\* C3 as stated: the PUTs are in order and every part except the last holds
\* exactly FILE_MAX_SIZE bytes, whatever the chunk boundaries.
C3_PartsExactlyMax ==
  /\ PutOrder
  /\ (wpc = "done" /\ ~Rejected) =>
        \A i \in 1..(Len(PartPuts) - 1) : Len(PartPuts[i].body) = FILE_MAX_SIZE

\* Every chunk written fits in a part by itself.
ChunksFit == \A i \in 1..Len(chunks) : Len(chunks[i]) <= FILE_MAX_SIZE

\* C4: a manifest PUT has the form {meta: {content_length}, splitFileList:
\* [{fileName, fileSize}, ...]}, lists every part in upload order with the head
\* first, gives each part's byte count under fileSize, and its content_length is
\* the sum of those counts and the total written.  (Stated for uploads whose
\* chunks each fit in a part.)
C4_ManifestForm ==
  ChunksFit =>
  \A i \in 1..Len(ManifestPuts) :
    LET m == JsonLoads(ManifestPuts[i].body)
        list == m.splitFileList
    IN /\ DOMAIN m = {"meta", "splitFileList"}
       /\ DOMAIN m.meta = {"content_length"}
       /\ Len(list) = Len(AcceptedParts)
       /\ \A j \in 1..Len(list) :
            /\ DOMAIN list[j] = {"fileName", "fileSize"}
            /\ list[j].fileName = PartName(j - 1)
            /\ list[j].fileSize = Len(AcceptedParts[j].body)
       /\ m.meta.content_length = SumSeq([j \in 1..Len(list) |-> list[j].fileSize])
       /\ (~Rejected => m.meta.content_length = Len(input))

\* C5: when the worker has ended, a PUT to u.splitinfo was issued if and only if
\* more than one part was written, and an upload of a single part with no
\* rejection issued exactly one PUT.
C5_ManifestIffSplit ==
  wpc = "done" =>
     /\ (Len(ManifestPuts) > 0) <=> (Len(AcceptedParts) > 1)
     /\ Len(ManifestPuts) <= 1
     /\ (~Rejected /\ Len(AcceptedParts) = 1) => Len(puts) = 1

\* C5: a finished upload of two or more parts with its manifest PUT.
C5_Witness ==
  /\ wpc = "done" /\ ~Rejected
  /\ Len(AcceptedParts) > 1
  /\ Len(ManifestPuts) = 1
  /\ puts[Len(puts)].manifest

\* C9: once the backend has rejected a PUT, the status the worker leaves behind
\* is ERROR, never DONE.  (Stated for uploads whose chunks each fit in a part.)
C9_ErrorIsTerminal ==
  (wpc = "done" /\ Rejected /\ ChunksFit) => get_status.status = STATUS_ERROR

\* C10: a write() that begins after the backend rejected a PUT raises at once:
\* it never reaches the queue; neither write() nor close() is left waiting on a
\* full queue whose worker has ended.  (Stated for uploads whose chunks each
\* fit in a part.)
C10_WriteFailsFast ==
  ChunksFit =>
    /\ (wr = "write_put" => ~wAfterReject)
    /\ ~(wr \in {"write_put", "close_put"} /\ wpc = "done"
         /\ Len(queue) = QueueMaxSize)

\* C6: an upload that has come to rest with every PUT accepted, read back to
\* the end through a download proxy built from the listed meta, returns the
\* written bytes.
C6_RoundTrip ==
  (rt.read /\ ~Rejected) => (~rt.err /\ rt.data = input)

\* C7: on a fresh download proxy of a split file whose manifest declares the
\* true part sizes, with no seek, every read(n) returns the next n bytes of the
\* concatenation of the parts (all the rest for n = -1, fewer only at the end,
\* none after it): the bytes returned so far are a prefix of the content, and
\* the position is their number.
C7_SequentialReads ==
  (dl.split /\ lastRead.done /\ lastRead.fresh) =>
     /\ ~lastRead.err
     /\ lastRead.data = Slice(content, lastRead.pos, lastRead.size)
     /\ dlOut = SubSeq(content, 1, Len(dlOut))
     /\ dl.position = Len(dlOut)

\* C7: a split file of three non-empty parts has been read to its end without
\* a seek, by reads that crossed the parts, and the last read returned b''.
C7_Witness ==
  /\ dl.split /\ ~dlSeeked
  /\ Len(dl.parts) = 3
  /\ \A i \in 1..3 : dl.parts[i].size > 0
  /\ dlOut = content
  /\ dl.cpi = 2
  /\ lastRead.done /\ lastRead.size > 0 /\ lastRead.data = <<>>

\* C8: seek(k) followed by read(n), n >= 0, returns C[k : k+n], after any
\* reads and seeks before them, for split and single files.  (Stated for
\* 0 <= k < L; at k = L the GET carries a Range starting at the end of the
\* resource, which the backend answers with 416.)
C8_SeekLaw ==
  (/\ lastRead.done /\ lastRead.size >= 0
   /\ lastRead.afterSeek >= 0 /\ lastRead.afterSeek < Len(content)) =>
     /\ ~lastRead.err
     /\ lastRead.data = Slice(content, lastRead.afterSeek, lastRead.size)

\* C11: when the backend rejected a part of the upload, end_write with
\* with_errors = False surfaces an error to its caller: it does not return
\* normally.
C11_EndWriteSurfacesError ==
  (ew.called /\ ~ew.with_errors /\ Rejected) => ew.raised

\* A delete() of a collection that sent its DELETE and returned no error.
CollectionDeleted ==
  /\ lastOp.op = "delete" /\ h.kind = "coll"
  /\ ~lastOp.skipped /\ lastOp.ret = <<>>

\* C12: after a successful DELETE of a collection whose path P/ ends with a
\* slash, the cache holds no key that begins with P/, whatever it held before.
C12_CollectionDeleteClearsSubtree ==
  (CollectionDeleted /\ EndsWith(lastOp.path, <<"/">>)) =>
     \A key \in DOMAIN cache : ~StartsWith(key, lastOp.path)

\* The collection's own entry and entries of its members were cached when the
\* delete began.
C12_Witness ==
  /\ CollectionDeleted /\ EndsWith(lastOp.path, <<"/">>)
  /\ lastOp.path \in DOMAIN lastOp.before
  /\ \E key \in DOMAIN lastOp.before :
       StartsWith(key, lastOp.path) /\ key # lastOp.path

\* A delete() of a split file that reached its DELETE loop.
SplitFileDeleted ==
  /\ lastOp.op = "delete" /\ h.kind = "file"
  /\ ~lastOp.skipped /\ lastOp.raised = 0
  /\ HasSplitInfo(lastOp.meta[1])

\* The URLs of a split file: the head, the parts that splitFileList names
\* after the first (in the head's folder), and the sidecar.
SplitFileUrls(path, meta) ==
  LET head == _get_backend_url(path)
      list == meta.split_info.splitFileList
  IN <<head>>
     \o [i \in 1..(Len(list) - 1) |->
           Dirname(head) \o <<"/">> \o list[i + 1].fileName]
     \o <<head \o <<".splitinfo">>>>

\* C13: delete() on a split file sends a DELETE for the head, for every part
\* that splitFileList names after the first and for the .splitinfo sidecar,
\* going on after a failure, and returns exactly the (url, status) pairs of
\* the DELETEs whose status is neither 200 nor 204.
C13_SplitDeleteTriesAll ==
  SplitFileDeleted =>
    /\ [i \in 1..Len(lastOp.reqs) |-> lastOp.reqs[i].url]
         = SplitFileUrls(lastOp.path, lastOp.meta[1])
    /\ lastOp.ret
         = SelectSeq(lastOp.reqs, LAMBDA q : q.status \notin {200, 204})

\* The DELETE of the head failed, the later ones were still sent and the
\* sidecar's succeeded.
C13_Witness ==
  /\ SplitFileDeleted
  /\ Len(lastOp.reqs) = 3
  /\ lastOp.reqs[1].status = 500
  /\ lastOp.reqs[3].status = 204
  /\ Len(lastOp.ret) >= 1

\* A delete() that sent its DELETEs.
DeleteSent ==
  /\ lastOp.op = "delete" /\ ~lastOp.skipped /\ lastOp.raised = 0

C15_MoveClearsSource ==
  (lastOp.op = "delete" /\ lastOp.skipped /\ h.is_moved) =>
     lastOp.path \notin DOMAIN cache

\* C16: after a successful COPY or MOVE to D, no entry that was cached before
\* the operation under a key with prefix D remains in the cache.  (Stated for
\* the COPY of a collection onto D, which no delete() of D precedes.)
C16_CopyClearsDestination ==
  (/\ lastOp.op = "copy_move_single" /\ h.kind = "coll"
   /\ ~lastOp.is_move /\ lastOp.raised = 0) =>
     \A key \in DOMAIN lastOp.before :
        StartsWith(key, lastOp.dest) => key \notin DOMAIN cache

\* A get_resource_meta(path) call that follows an earlier one on the same
\* path, whose PROPFIND succeeded, with no other call of the provider between
\* them (the clock may have advanced).
ResolvedAgain ==
  /\ lastOp'.op = "get_resource_inst" /\ served' = served + 1
  /\ lastOp'.path = chain.path

\* The later call sends a PROPFIND exactly when the TTL has elapsed since the
\* entry was stored.
RefetchedIffExpired ==
  lastOp'.propfind <=> (now >= chain.fetchT + METADATA_CACHE_TTL)

C18_KeysAreCanonical ==
  \A key \in DOMAIN cache :
     /\ StartsWith(key, <<"/">>)
     /\ \A i \in 1..Len(key) : key[i] # Head(BACKEND_URL)
     /\ ~StartsWith(key, backend_path)

\* The canonical keys of the listing that the last call got.
ResultKeys == {CacheKey(key) : key \in DOMAIN lastOp.result}

\* get_member_names listed /a/ while the backend held there the regular file,
\* the split head, its part and its manifest, and the manifest was read.
ListedSplitDirectory ==
  /\ lastOp.op = "get_member_names" /\ lastOp.propfind /\ lastOp.raised = 0
  /\ UrlToId(_get_backend_url(lastOp.path)) = DirA
  /\ {FileF, HeadU, HeadU \o <<".part001">>, HeadU \o <<".splitinfo">>}
       \subseteq DOMAIN be
  /\ \E key \in DOMAIN lastOp.result :
       CacheKey(key) = HeadU /\ HasSplitInfo(lastOp.result[key])

\* C19: after such a listing the result and the cache hold an entry for the
\* directory, keyed with a trailing slash, for the regular file and for the
\* head, the head with split_info and the manifest's content_length; neither
\* holds a key that ends in .splitinfo or .partNNN.  (Stated for listings
\* whose manifest GET succeeded.)
C19_ListingHoldsLogicalEntries ==
  ListedSplitDirectory =>
    /\ {DirA \o <<"/">>, FileF, HeadU} \subseteq (ResultKeys \cap DOMAIN cache)
    /\ HasSplitInfo(cache[HeadU].value)
    /\ cache[HeadU].value.content_length
         = JsonLoads(be[HeadU \o <<".splitinfo">>].body[1]).meta.content_length
    /\ \A key \in ResultKeys \cup DOMAIN cache :
         key = <<>> \/ key[Len(key)] \notin {".splitinfo", ".part001", ".part002"}

\* The split-file heads of the listing that the last call got.
ListedHeads == {key \in DOMAIN lastOp.result : HasSplitInfo(lastOp.result[key])}

\* C20: for every split-file head H of a listing result, over the backend
\* states that the proxy's uploads, copies and moves lead to, H.content_length
\* is the sum of fileSize over H.split_info.splitFileList, and the first entry
\* of that list names H's basename.
C20_HeadAgreesWithManifest ==
  \A key \in ListedHeads :
    LET H == lastOp.result[key]
        list == H.split_info.splitFileList
    IN /\ \A j \in 1..Len(list) : "fileSize" \in DOMAIN list[j]
       /\ H.content_length = SumSeq([j \in 1..Len(list) |-> PartSize(list[j])])
       /\ list[1].fileName = Basename(key)

\* A COPY of a file that the backend accepted for every pair.
FileCopied ==
  /\ lastOp.op = "copy_move_single" /\ h.kind = "file"
  /\ ~lastOp.is_move /\ lastOp.raised = 0 /\ lastOp.meta # <<>>

\* The URLs that a download of the split file at `path` reads, from the
\* manifest the backend holds beside it: its folder plus each fileName.
DownloadPartUrls(path) ==
  LET url == _get_backend_url(path)
      list == JsonLoads(be[UrlToId(url \o <<".splitinfo">>)].body[1]).splitFileList
  IN [i \in 1..Len(list) |-> RSplitHead(url) \o <<"/">> \o list[i].fileName]

\* The physical parts that the COPY made at the destination.
CopiedPartUrls ==
  LET dest_url == _get_backend_url(lastOp.dest)
      list == lastOp.meta[1].split_info.splitFileList
  IN [i \in 1..Len(list) |->
        IF i = 1 THEN dest_url
        ELSE dest_url \o LastExtension(list[i].fileName)]

\* C21: after a successful COPY of a file the destination holds the source's
\* content, and for a split file the destination's manifest names the
\* destination's own parts, so that a download of the destination reads them
\* and not the source's.
C21_CopyRoundTrip ==
  FileCopied =>
    /\ be[UrlToId(_get_backend_url(lastOp.dest))].etag
         = be[UrlToId(_get_backend_url(lastOp.path))].etag
    /\ HasSplitInfo(lastOp.meta[1]) =>
         DownloadPartUrls(lastOp.dest) = CopiedPartUrls

\* A COPY or MOVE of a split file in which the backend rejected a pair.
SplitCopyMoveRejected ==
  /\ lastOp.op = "copy_move_single" /\ h.kind = "file"
  /\ lastOp.meta # <<>> /\ HasSplitInfo(lastOp.meta[1])
  /\ \E i \in 1..Len(lastOp.reqs) : lastOp.reqs[i].status \notin {201, 204}

\* C22: when the backend rejects the verb for some pairs of a split file's
\* COPY or MOVE, the call returns the list of the failing (url, status) pairs,
\* every pair having been tried (head, further parts, manifest), and the pairs
\* that succeeded stay as they are.
C22_CopyMoveReturnsFailures ==
  SplitCopyMoveRejected =>
    /\ lastOp.raised = 0
    /\ Len(lastOp.reqs) = Len(lastOp.meta[1].split_info.splitFileList) + 1
    /\ lastOp.ret # <<>>
    /\ lastOp.ret
         = SelectSeq(lastOp.reqs, LAMBDA q : q.status \notin {201, 204})

\* C23: with several threads calling get_resource_meta, set_resource_meta and
\* clear_resource_meta on the shared cache, no call fails under any
\* interleaving: get_resource_meta returns cached meta, fresh meta or None and
\* never raises when its key is removed or expires between its membership test
\* and its read, and clear_resource_meta never raises either.
C23_NoCallRaises ==
  \A t \in Threads : threads[t].out # "KeyError"

\* The part of C23 about get_resource_meta alone.
C23_GetNeverRaises ==
  \A t \in Threads :
    threads[t].path \in ThreadPaths => threads[t].out # "KeyError"

\* C24: on a download proxy of a non-split file, with no seek, the bytes that
\* the reads so far returned (of any sizes, also smaller than a block of the
\* backend, also -1) are the prefix of the content of that length, nothing
\* skipped or repeated, and the position is their number.
C24_PlainReadsAreContiguous ==
  (~dl.split /\ lastRead.done /\ lastRead.fresh) =>
     /\ ~lastRead.err
     /\ dlOut = SubSeq(content, 1, Len(dlOut))
     /\ dl.position = Len(dlOut)

\* The part of C24 about tell(): the position is the number of bytes returned.
C24_TellCountsReturnedBytes ==
  (~dl.split /\ lastRead.done /\ lastRead.fresh) => dl.position = Len(dlOut)

\* The keys under which the entries of the last listing are cached.
ListedKeys == {CacheKey(key) : key \in DOMAIN lastOp.result}

\* get_resource_inst missed the cache and the folder of its path was listed.
LookupListed ==
  /\ lastOp.op = "get_resource_inst"
  /\ lastOp.propfind
  /\ lastOp.result # <<>>

\* C25: when a lookup misses the cache and the PROPFIND of the parent folder
\* lists the path, get_resource_meta returns the meta of the path, also when
\* the listing has more entries than the cache has room for.
C25_MissReturnsListedMeta ==
  (LookupListed /\ lastOp.path \in ListedKeys) =>
     /\ lastOp.meta # <<>>
     /\ \E key \in DOMAIN lastOp.result :
          CacheKey(key) = lastOp.path /\ lastOp.meta[1] = lastOp.result[key]

\* C25 for the listings that fit into the cache.
C25_MissReturnsListedMetaWhenRoom ==
  (/\ LookupListed /\ lastOp.path \in ListedKeys
   /\ Cardinality(ListedKeys) <= METADATA_CACHE_SIZE) =>
     /\ lastOp.meta # <<>>
     /\ ListedKeys \subseteq DOMAIN cache
     /\ \E key \in DOMAIN lastOp.result :
          CacheKey(key) = lastOp.path /\ lastOp.meta[1] = lastOp.result[key]

\* clear_resource_meta was called with a path that has no trailing slash.
ClearedFilePath ==
  /\ lastOp.op = "clear_resource_meta"
  /\ ~EndsWith(lastOp.path, <<"/">>)

\* The entries other than that of the path are as they were before the call.
OthersUnchanged ==
  \A key \in DOMAIN lastOp.before \ {lastOp.path} :
    /\ key \in DOMAIN cache
    /\ cache[key].value = lastOp.before[key].value
    /\ cache[key].expires = lastOp.before[key].expires

\* C26: clear_resource_meta(path) with a path without a trailing slash removes
\* at most the entry of the path itself; the other entries, also those whose
\* key begins with the path, stay as they were, whether the path is cached or
\* not.
C26_ClearFileIsExact ==
  ClearedFilePath => (OthersUnchanged /\ lastOp.path \notin DOMAIN cache)

\* C26 for a path that is cached when the call begins.
C26_ClearCachedFileIsExact ==
  (ClearedFilePath /\ lastOp.path \in DOMAIN lastOp.before) =>
     (OthersUnchanged /\ lastOp.path \notin DOMAIN cache)

\* The last call was a copy or a move on the handle, and whether it was a MOVE
\* that the backend accepted in full.
CopiedOrMoved == lastOp.op \in {"copy_move_single", "move_recursive"}
MoveSucceeded ==
  /\ CopiedOrMoved
  /\ lastOp.is_move
  /\ lastOp.reqs # <<>>
  /\ \A i \in 1..Len(lastOp.reqs) : lastOp.reqs[i].status \in {201, 204}

\* C27: a handle is marked moved exactly by a MOVE that succeeded
\* (copy_move_single with is_move, or move_recursive); delete() on a marked
\* handle sends no DELETE, and on a handle that is not marked (after a COPY or
\* a rejected MOVE) it sends its DELETE(s).
C27_MovedExactlyBySuccessfulMove ==
  /\ CopiedOrMoved => (h.is_moved <=> MoveSucceeded)
  /\ h.is_moved => h.stage # "new"
  /\ lastOp.op = "delete" =>
       /\ lastOp.skipped <=> h.is_moved
       /\ lastOp.skipped => lastOp.reqs = <<>>
       /\ (~lastOp.skipped /\ lastOp.raised = 0) => lastOp.reqs # <<>>

\* C27: delete() was called on the handle of a file after its MOVE succeeded,
\* and sent nothing.
C27_Witness ==
  /\ lastOp.op = "delete" /\ lastOp.skipped
  /\ h.kind = "file" /\ h.is_moved
  /\ Exists(FileG) /\ ~Exists(h.path)

\* The last call listed a folder and asked for the manifests of split heads.
ManifestListing ==
  /\ lastOp.op \in {"get_resource_inst", "get_member_names"}
  /\ lastOp.propfind
  /\ lastOp.result # <<>>
  /\ lastOp.gets.heads # {}

\* The resource of a listed key and the manifest beside it.
ListedId(key) == UrlToId(_get_backend_url(CacheKey(key)))
ManifestId(key) == ListedId(key) \o <<".splitinfo">>

\* The GET of the head's manifest was served with a text that is JSON.
ManifestLoaded(key) == lastOp.gets.ok /\ IsJson(be[ManifestId(key)].body[1])

\* C28: when the GET of a split head's manifest fails (not served, or its text
\* is not JSON), the listing still succeeds: that head is listed without
\* split_info and with the length of the head itself, no .splitinfo or part
\* entry is listed, and every head whose manifest did load has its split_info
\* and the logical length.
C28_ManifestFailureKeepsListing ==
  ManifestListing =>
    /\ \A key \in lastOp.gets.heads :
         /\ key \in DOMAIN lastOp.result
         /\ IF ManifestLoaded(key)
              THEN /\ HasSplitInfo(lastOp.result[key])
                   /\ lastOp.result[key].split_info
                        = JsonLoads(be[ManifestId(key)].body[1])
                   /\ lastOp.result[key].content_length
                        = JsonLoads(be[ManifestId(key)].body[1]).meta.content_length
              ELSE /\ ~HasSplitInfo(lastOp.result[key])
                   /\ lastOp.result[key].content_length = be[ListedId(key)].len
    /\ \A key \in DOMAIN lastOp.result :
         ~EndsWith(key, <<".splitinfo">>) /\ ~LastExtensionIsPart(key)

\* C28: one listing held two split heads; the manifest of v did not load and
\* that of u did.
C28_Witness ==
  /\ ManifestListing
  /\ Cardinality(lastOp.gets.heads) = 2
  /\ \E ku, kv \in lastOp.gets.heads :
       /\ ListedId(ku) = HeadU /\ ListedId(kv) = HeadV
       /\ HasSplitInfo(lastOp.result[ku])
       /\ ~HasSplitInfo(lastOp.result[kv])
       /\ lastOp.result[kv].content_length = 2

\* The last call sent a PROPFIND whose answer propfind() could not use: the
\* status was not 207, the folder is missing, or a response had no
\* resourcetype.
ListingAbsent ==
  /\ lastOp.op \in {"get_resource_inst", "get_member_names"}
  /\ lastOp.propfind
  /\ lastOp.result = <<>>

\* The folder that a call on the path lists, and the resources of its listing.
ListedFolder(op, path) ==
  IF op = "get_member_names"
    THEN UrlToId(RStrip(_get_backend_url(path)))
    ELSE UrlToId(Dirname(_get_backend_url(path)))
ListedResources(op, path) ==
  ({ListedFolder(op, path)} \cup Children(be, ListedFolder(op, path)))
    \cap DOMAIN be

\* C29: when the PROPFIND of a lookup or of get_member_names is not answered
\* with 207, or one response of the listing has no resourcetype, propfind
\* returns None for the whole listing: the call stores nothing, every entry of
\* the cache stays as it was, get_resource_meta returns None and
\* get_member_names raises 404.
C29_UnusableListingIsAbsent ==
  [][(/\ (served' # served \/ h' # h)
      /\ lastOp'.op \in {"get_resource_inst", "get_member_names"}
      /\ lastOp'.propfind)
     => /\ (\/ lastOp'.gets.status # 207
            \/ \E o \in ListedResources(lastOp'.op, lastOp'.path) :
                 "typed" \in DOMAIN be[o])
           => ListingAbsent'
        /\ ListingAbsent' =>
             /\ cache' = cache
             /\ lastOp'.meta = <<>>
             /\ lastOp'.op = "get_member_names" => lastOp'.raised = 404]_vars

\* C29: a lookup of /a/g, with /a/ cached from an earlier listing, listed a
\* folder in which one response has no resourcetype, and returned None.
C29_Witness ==
  /\ ListingAbsent
  /\ lastOp.op = "get_resource_inst"
  /\ lastOp.path = FileG
  /\ FileW \in DOMAIN be
  /\ lastOp.gets.status = 207
  /\ cache # <<>>

\* The last call got a listing that propfind parsed, and the keys of its
\* responses before the split-file pass.
ListingParsed ==
  /\ lastOp.op \in {"get_resource_inst", "get_member_names"}
  /\ lastOp.propfind
  /\ lastOp.gets.status = 207
  /\ \A o \in ListedResources(lastOp.op, lastOp.path) : "typed" \notin DOMAIN be[o]
ParsedKeys ==
  {Unquote(Href(be, style, o)) : o \in ListedResources(lastOp.op, lastOp.path)}

\* The last path segment of the key has an extension that begins with "part".
LastSegmentIsPart(key) ==
  LET segment == Basename(RStrip(key))
  IN LastDot(segment) > 0 /\ segment[LastDot(segment)] \in PartTokens

\* A path segment before the last one holds an extension that begins with
\* "part".
ParentHasPart(key) ==
  LET parents == SubSeq(RStrip(key), 1, LastSlash(RStrip(key)))
  IN \E i \in 1..Len(parents) : parents[i] \in PartTokens

\* C30: the split-file pass removes a response of the listing exactly when
\* its key ends in .splitinfo or the final extension of its last path segment
\* begins with "part"; a key whose last segment has no such extension is kept,
\* also below a folder whose name holds ".part".
C30_RemovesExactlyPartsAndManifests ==
  ListingParsed =>
    \A key \in ParsedKeys :
      key \notin DOMAIN lastOp.result
        <=> (EndsWith(key, <<".splitinfo">>) \/ LastSegmentIsPart(key))

\* C30 for the keys none of whose parent folders holds ".part" in its name.
C30_RemovesExactlyBelowPlainFolders ==
  ListingParsed =>
    \A key \in {k \in ParsedKeys : ~ParentHasPart(k)} :
      key \notin DOMAIN lastOp.result
        <=> (EndsWith(key, <<".splitinfo">>) \/ LastSegmentIsPart(key))

\* The number of bytes of the parts before the i-th part PUT.
SentBefore(i) == Len(Flatten([j \in 1..(i - 1) |-> PartPuts[j].body]))

\* The i-th part PUT (i >= 2) begins with the chunk that was held over when the
\* part before it ended: the written chunk that starts at the first byte not
\* yet sent.
StartsWithHoldover(i) ==
  \E c \in 1..Len(chunks) :
    /\ chunks[c][1] = SentBefore(i) + 1
    /\ StartsWith(PartPuts[i].body, chunks[c])

\* The first half of C31: neither the bytes yielded into the part in flight
\* nor the body of any part PUT answered exceed FILE_MAX_SIZE.
C31_BodiesBounded ==
  /\ uploaded_bytes <= FILE_MAX_SIZE
  /\ Len(body) = uploaded_bytes
  /\ \A i \in 1..Len(PartPuts) : Len(PartPuts[i].body) <= FILE_MAX_SIZE

\* C31: no PUT body of an upload exceeds FILE_MAX_SIZE bytes (the bytes yielded
\* into the current part are at most FILE_MAX_SIZE in every state), and the
\* chunk that would overflow a part is held over and sent as the first chunk
\* of the next part.
C31_HoldoverOpensNextPart ==
  /\ C31_BodiesBounded
  /\ \A i \in 2..Len(PartPuts) : StartsWithHoldover(i)

\* C31 restricted to uploads whose chunks each fit in a part.
C31_HoldoverOpensNextPartWhenFit ==
  ChunksFit => C31_HoldoverOpensNextPart

\* The last call was a read() during which the backend answered a GET with a
\* status outside {200, 206}, or a response stream failed while being read.
ReadMetFailure == lastRead.done /\ (lastRead.refused \/ lastRead.broke)

\* C32: a read() on the download proxy that meets a GET answered with a status
\* outside {200, 206}, or a response stream that fails while it is read, raises
\* an I/O error, for split and non-split files alike: it does not return data,
\* empty or short, that the caller would take for the end of the file.
C32_FailedReadRaises == ReadMetFailure => lastRead.err

\* The part of C32 about refused GETs, and its part about split files.
C32_RefusedReadRaises == (lastRead.done /\ lastRead.refused) => lastRead.err
C32_SplitFailedReadRaises == (ReadMetFailure /\ dl.split) => lastRead.err

\* close() has put the end-of-stream sentinel and waits for the worker.
CloseWaits == wr = "close_join"
WorkerEnded == wpc = "done"
\* The backend has rejected a PUT: the worker has set an error message.
PutFailed == error_message # None

\* C33: after close() the upload worker terminates, for every sequence of
\* writes, also when a written chunk is larger than FILE_MAX_SIZE: it issues
\* finitely many PUTs, and a chunk that is held over is sent in the end.
\* Stated from the point where close() has queued the sentinel and joins the
\* worker, and for held-over chunks of uploads whose PUTs are accepted.
C33_WorkerTerminates ==
  /\ CloseWaits ~> WorkerEnded
  /\ (~temp_data.none /\ ~PutFailed) ~> (temp_data.none \/ PutFailed)

\* C33 for uploads whose chunks each fit in a part.
C33_WorkerTerminatesWhenFit ==
  /\ (CloseWaits /\ ChunksFit) ~> WorkerEnded
  /\ (~temp_data.none /\ ~PutFailed /\ ChunksFit) ~> (temp_data.none \/ PutFailed)

\* A safety consequence of C33: no part after the first is sent empty, so the
\* part PUTs are at most as many as the chunks written (or one).
C33_PutsBoundedByChunks ==
  Len(PartPuts) <= Max(1, Len(chunks))

\* The i-th PUT of the upload was a part PUT that the backend rejected.
PartRejectedAt(i) == ~puts[i].manifest /\ ~PutAccepted(puts[i].status)

\* C34: once the backend has rejected a part PUT, the worker issues no further
\* PUT for the upload, neither a further part nor the .splitinfo manifest, also
\* when two or more parts had been written before: a rejected part PUT is the
\* last PUT of the upload.
C34_RejectedPartIsLastPut ==
  \A i \in 1..Len(puts) : PartRejectedAt(i) => i = Len(puts)

\* The part of C34 about further parts: no part PUT follows a rejected one.
C34_NoPartAfterRejectedPart ==
  \A i \in 1..Len(puts) : \A j \in (i + 1)..Len(puts) :
     PartRejectedAt(i) => puts[j].manifest

\* The last call read an upload back after a seek: the upload ended with every
\* PUT accepted and more than one part, and the proxy was built from the
\* manifest the upload wrote.
SplitReadBack ==
  /\ lastRead.done /\ rt = NotRead /\ Quiescent
  /\ ~Rejected
  /\ Len(AcceptedParts) > 1
  /\ dl.split

\* C35: for a file uploaded through the upload proxy in more than one part, a
\* download proxy built from the manifest that the upload wrote locates the
\* part covering any offset: seek(k) followed by read(n) returns B[k : k+n]
\* for every 0 <= k < L, not the bytes from offset 0 of the head part.
C35_SeekReadsUploadedBytes ==
  (SplitReadBack /\ lastRead.afterSeek < Len(input)) =>
     /\ ~lastRead.err
     /\ lastRead.data = Slice(input, lastRead.afterSeek, lastRead.size)

\* What the proxy returns instead: the bytes from offset 0 of the head part.
C35_SeekReadsFromHead ==
  (SplitReadBack /\ lastRead.afterSeek < Len(input)) =>
     /\ ~lastRead.err
     /\ lastRead.data = Slice(Flatten(StoredParts), 0, lastRead.size)

====
